---- MODULE Spec2Model ----
(***************************************************************************)
(* Risk-gated order execution of AI-Trader.                                *)
(*                                                                         *)
(* The model follows src/agent_tools/tool_live_trade.py (the order tools), *)
(* src/tools/live_risk_state.py (the daily baseline),                      *)
(* src/tools/live_alerts.py (the alert sink) and                           *)
(* src/integrations/alpaca_broker.py (the broker adapter).                 *)
(*                                                                         *)
(* Quantities and amounts of money are counted in halves: the number n     *)
(* stands for n / 2 shares or dollars, so that fractional quantities exist *)
(* and stay integers.  Prices are whole dollars per share.  Percentages    *)
(* (MAX_*_PCT_EQUITY, MAX_DAILY_LOSS_PCT) are kept in whole percent, so    *)
(* the source's  x > equity * pct  is  x * 100 > equity * pct  here and    *)
(* its  (start - equity) / start >= pct  is                                *)
(* (start - equity) * 100 >= pct * start  (start > 0).                     *)
(*                                                                         *)
(* A tool call is a sequence of steps, one per broker request: the broker  *)
(* is an external service, and what it answers (an account snapshot, a     *)
(* position list, an order acknowledgement or a failure) is an input of    *)
(* the step that makes the request.                                        *)
(***************************************************************************)
EXTENDS Integers, Sequences, FiniteSets, TLC

VARIABLES
  env,         \* the process environment, as the _get_env_* readers parse it
  today,       \* datetime.utcnow().date()
  state_file,  \* data/live_state.json: the "daily" entry
  pc,          \* where the running tool call stands
  call,        \* the running tool call: tool and arguments
  frame,       \* the locals of the running live_buy / live_sell
  result,      \* what the tool call returned (or raised)
  calls,       \* broker adapter methods called since the tool call began
  orders,      \* order payloads the broker accepted since the tool call began
  alerts,      \* entries appended to live_alerts.jsonl since the call began
  twap,        \* the locals of the running live_twap_order
  loss_day,    \* the last day on which a buy was rejected for daily loss
  callers,     \* the get_or_init_day_state calls of each process: position, locals
  returned,    \* the get_or_init_day_state calls that have ended, in that order
  lock_file,   \* data/live_scheduler.lock
  now,         \* time.time()
  sched,       \* the scheduler processes: position and locals of each
  session,     \* the trading session of the live agent: position, locals, run log
  book         \* the broker's book: the holding of Symbol, when it is followed

\* what the order tools never touch: the processes that call the state store
\* on their own, the schedulers with their lock, and the agent's session
apart == <<callers, returned, lock_file, now, sched, session>>

\* and what only an order the broker accepts changes
others == <<book, apart>>

vars ==
  <<env, today, state_file, pc, call, frame, result, calls, orders, alerts, twap, loss_day,
    others>>

\* Python's None, for optional numbers (every number of the model is >= 0)
None == -1

\* ---------------------------------------------------------------- bounds
\* the last calendar day a behaviour reaches (days are 1..MaxDay)
MaxDay == 2

\* the largest total a slicing plan is made for, in halves, and the largest
\* number of slices asked for
MaxTotal == 24
MaxSlices == 5

\* ---------------------------------------------------------------- defaults
TWAP_SLICES_DEFAULT == 4
TWAP_INTERVAL_DEFAULT == 15

\* ---------------------------------------------------------------- inputs
Symbol == "AAPL"
OtherSymbol == "MSFT"

\* a raw value, of the environment or of a broker answer: a decimal number
\* >= 0, or one of these (Garbage: a text that is not a number)
Unset == -1
Empty == -2
Garbage == -3

\* account.get("equity") and account.get("buying_power"), as the broker
\* sends them: None stands for an absent figure
EquityVals == {None, Garbage, 0, 95, 96, 100}
BuyingPowerVals == {None, Garbage, 10}

\* (qty, notional, estimated_price) of an order
SizeArgs ==
  { <<None, None, None>>,
    <<4, None, None>>, <<4, None, 3>>,
    <<None, 10, None>>, <<None, 12, None>>, <<4, 10, None>> }

\* the sizes tried through live_place_order
PlaceSizeArgs == { <<None, None, None>>, <<4, None, 3>>, <<None, 10, None>> }

PositionLists ==
  { <<>>,
    <<[symbol |-> OtherSymbol, qty |-> 18, market_value |-> 18]>>,
    <<[symbol |-> Symbol, qty |-> 2, market_value |-> 6]>>,
    <<[symbol |-> OtherSymbol, qty |-> 18, market_value |-> 18],
      [symbol |-> Symbol, qty |-> 4, market_value |-> 0 - 12]>> }

\* what the broker answers to list_positions: a list of positions, a body
\* that is not a list, or a failure
PositionAnswers ==
  {[ok |-> TRUE, list |-> TRUE, items |-> p] : p \in PositionLists}
    \cup {[ok |-> TRUE, list |-> FALSE, items |-> <<>>],
          [ok |-> FALSE, list |-> FALSE, items |-> <<>>]}

\* what the broker answers to get_account: a snapshot, or a failure
\* (requests raises, or the response is not 2xx)
AccountAnswers ==
  [ok : {TRUE}, equity : EquityVals, buying_power : BuyingPowerVals]
    \cup {[ok |-> FALSE, equity |-> None, buying_power |-> None]}

\* the environments a process can be started with
LimitEnvs ==
  [ MAX_ORDER_NOTIONAL_USD : {Unset, 10},
    MAX_ORDER_PCT_EQUITY : {Unset, 10},
    MAX_POSITION_NOTIONAL_USD : {Unset, 16},
    MAX_POSITION_PCT_EQUITY : {Unset, 20},
    MAX_DAILY_LOSS_PCT : {Unset, 5},
    ALLOW_SHORT : {"unset"},
    TWAP_SLICES : {Unset}, TWAP_INTERVAL_SECONDS : {Unset} ]
ShortEnvs ==
  [ MAX_ORDER_NOTIONAL_USD : {Unset},
    MAX_ORDER_PCT_EQUITY : {Unset},
    MAX_POSITION_NOTIONAL_USD : {Unset},
    MAX_POSITION_PCT_EQUITY : {Unset},
    MAX_DAILY_LOSS_PCT : {Unset, 5},
    ALLOW_SHORT : {"false", "True", "yes"},
    TWAP_SLICES : {Unset}, TWAP_INTERVAL_SECONDS : {Unset} ]
OddEnvs ==
  [ MAX_ORDER_NOTIONAL_USD : {Empty, Garbage},
    MAX_ORDER_PCT_EQUITY : {Unset},
    MAX_POSITION_NOTIONAL_USD : {Unset},
    MAX_POSITION_PCT_EQUITY : {Unset},
    MAX_DAILY_LOSS_PCT : {Garbage},
    ALLOW_SHORT : {"unset"},
    TWAP_SLICES : {Unset}, TWAP_INTERVAL_SECONDS : {Unset} ]
EnvSet == LimitEnvs \cup ShortEnvs \cup OddEnvs

\* the environments of the runs that slice orders
TwapEnvs ==
  [ MAX_ORDER_NOTIONAL_USD : {Unset},
    MAX_ORDER_PCT_EQUITY : {Unset},
    MAX_POSITION_NOTIONAL_USD : {Unset, 16},
    MAX_POSITION_PCT_EQUITY : {Unset},
    MAX_DAILY_LOSS_PCT : {Unset},
    ALLOW_SHORT : {"unset"},
    TWAP_SLICES : {Unset, 2}, TWAP_INTERVAL_SECONDS : {Unset, Garbage} ]

\* the sliced orders tried: (qty, notional, estimated_price) as above,
\* slices and interval_seconds as passed (None: not passed)
TwapCalls ==
  { [side |-> "hold", asset_class |-> "equity", size |-> <<4, None, 3>>,
     slices |-> None, interval_seconds |-> None],
    [side |-> "", asset_class |-> "equity", size |-> <<None, None, None>>,
     slices |-> None, interval_seconds |-> None],
    [side |-> "BUY", asset_class |-> "equity", size |-> <<None, None, 3>>,
     slices |-> 2, interval_seconds |-> 0],
    [side |-> "buy", asset_class |-> "equity", size |-> <<6, None, 3>>,
     slices |-> 2, interval_seconds |-> None],
    [side |-> "buy", asset_class |-> "crypto", size |-> <<None, 12, None>>,
     slices |-> None, interval_seconds |-> 1],
    [side |-> "sell", asset_class |-> "crypto", size |-> <<4, None, None>>,
     slices |-> 0, interval_seconds |-> 0],
    [side |-> "Sell", asset_class |-> "equity", size |-> <<5, None, None>>,
     slices |-> 3, interval_seconds |-> 1] }

\* ---------------------------------------------------------------- values
NoError == [error |-> "", a |-> None, b |-> None]
Error(msg, a, b) == [error |-> msg, a |-> a, b |-> b]

NoResult == [kind |-> "none", error |-> "", a |-> None, b |-> None]
ErrorResult(e) == [kind |-> "error", error |-> e.error, a |-> e.a, b |-> e.b]
OrderResult == [kind |-> "order", error |-> "", a |-> None, b |-> None]
Raised(msg) == [kind |-> "raised", error |-> msg, a |-> None, b |-> None]

NoCall ==
  [tool |-> "", side_arg |-> "", side |-> "", qty |-> None, notional |-> None,
   estimated_price |-> None]

\* the call record of a tool: side_arg is the side as the caller wrote it,
\* side the one the tool works with
Call(tool, side_arg, side, args) ==
  [tool |-> tool, side_arg |-> side_arg, side |-> side, qty |-> args[1],
   notional |-> args[2], estimated_price |-> args[3]]

NoTwap ==
  [ active |-> FALSE, side_arg |-> "", side |-> "", asset_class |-> "", qty |-> None, notional |-> None,
    estimated_price |-> None, slices |-> None, interval_seconds |-> None,
    slice_count |-> None, delay |-> None,
    plan |-> <<>>, results |-> <<>>, sleeps |-> <<>> ]

NoFrame ==
  [ account |-> <<>>,
    equity |-> None, buying_power |-> None, order_notional |-> None,
    loss_checked |-> FALSE, tripped_before |-> FALSE, equity_start |-> None,
    loss_error |-> NoError, limit_error |-> NoError,
    current_notional |-> None, position_error |-> NoError,
    current_qty |-> None ]

\* the processes that call get_or_init_day_state on their own
Callers == {1, 2}
IdleCaller ==
  [ pc |-> "idle", equity |-> None, today |-> None, before |-> <<>>, ret |-> <<>>,
    raised |-> "", wrote |-> FALSE ]

\* the scheduler processes
Schedulers == {1, 2}
IdleScheduler == [pc |-> "tick", now |-> None, last |-> None, outcome |-> ""]

\* the lock file: absent, or a text written by owner (0: a process that is
\* gone); the text is a time stamp or something float() does not take
NoLock == [exists |-> FALSE, text |-> None, owner |-> 0]
LockOf(text, owner) == [exists |-> TRUE, text |-> text, owner |-> owner]

\* the broker's holding of Symbol is not followed: list_positions answers
\* anything
Untracked == [tracked |-> FALSE, qty |-> 0]
Holding(qty) == [tracked |-> TRUE, qty |-> qty]

\* no trading session has begun; runs is data/live_runs.jsonl
NoSession ==
  [ pc |-> "idle", max_steps |-> None, current_step |-> 0, status |-> "",
    error_details |-> "", raised |-> "", log |-> <<>>, runs |-> <<>>, started |-> 0 ]

\* no store caller, no scheduler and no session is at work
ApartIdle ==
  /\ session = NoSession
  /\ callers = [p \in Callers |-> IdleCaller]
  /\ returned = <<>>
  /\ lock_file = NoLock
  /\ now = 0
  /\ sched = [p \in Schedulers |-> IdleScheduler]

OthersIdle ==
  /\ ApartIdle
  /\ book = Untracked

\* Python truthiness of an optional number: None and 0 are falsy
Truthy(x) == x # None /\ x # 0

Max(x, y) == IF x >= y THEN x ELSE y
Abs(x) == IF x < 0 THEN 0 - x ELSE x

\* str.lower() without its work
Lower_Identity(s) == s

\* str.lower() on the strings the model uses
Lower(s) ==
  CASE s = "BUY" -> "buy"
    [] s = "Sell" -> "sell"
    [] s = "True" -> "true"
    [] OTHER -> s

\* ------------------------------------------------- tool_live_trade.py
\* lines 197-204: float(account.get(...)) under except (TypeError, ValueError)
ToFloat(value) ==
  IF value = None THEN None
  ELSE IF value = Garbage THEN None
  ELSE value

\* _get_env_float reading a limit that is not set as 0
_get_env_float_UnsetIsZero(key) ==
  LET value == env[key]
  IN IF value = Unset \/ value = Empty THEN 0
     ELSE IF value = Garbage THEN None
     ELSE value

_get_env_float(key) ==
  LET value == env[key]
  IN IF value = Unset \/ value = Empty THEN None
     ELSE IF value = Garbage THEN None
     ELSE value

_get_env_int(key, default) ==
  LET raw == env[key]
  IN IF raw = Unset \/ raw = Empty THEN default
     ELSE IF raw = Garbage THEN default
     ELSE raw

\* _ensure_notional_limits with >= for > on the absolute limit
_ensure_notional_limits_Inclusive(notional, equity) ==
  LET max_notional == _get_env_float("MAX_ORDER_NOTIONAL_USD")
      max_pct == _get_env_float("MAX_ORDER_PCT_EQUITY")
  IN IF max_notional # None /\ notional >= max_notional
       THEN Error("Order notional {a} exceeds MAX_ORDER_NOTIONAL_USD {b}", notional, max_notional)
     ELSE IF max_pct # None /\ Truthy(equity) /\ notional * 100 > equity * max_pct
       THEN Error("Order notional {a} exceeds MAX_ORDER_PCT_EQUITY {b}", notional, max_pct)
     ELSE NoError

\* _ensure_notional_limits with the percent limit tested first
_ensure_notional_limits_PctFirst(notional, equity) ==
  LET max_notional == _get_env_float("MAX_ORDER_NOTIONAL_USD")
      max_pct == _get_env_float("MAX_ORDER_PCT_EQUITY")
  IN IF max_pct # None /\ Truthy(equity) /\ notional * 100 > equity * max_pct
       THEN Error("Order notional {a} exceeds MAX_ORDER_PCT_EQUITY {b}", notional, max_pct)
     ELSE IF max_notional # None /\ notional > max_notional
       THEN Error("Order notional {a} exceeds MAX_ORDER_NOTIONAL_USD {b}", notional, max_notional)
     ELSE NoError

_ensure_notional_limits(notional, equity) ==
  LET max_notional == _get_env_float("MAX_ORDER_NOTIONAL_USD")
      max_pct == _get_env_float("MAX_ORDER_PCT_EQUITY")
  IN IF max_notional # None /\ notional > max_notional
       THEN Error("Order notional {a} exceeds MAX_ORDER_NOTIONAL_USD {b}", notional, max_notional)
     ELSE IF max_pct # None /\ Truthy(equity) /\ notional * 100 > equity * max_pct
       THEN Error("Order notional {a} exceeds MAX_ORDER_PCT_EQUITY {b}", notional, max_pct)
     ELSE NoError

\* the index of the first position of the list with this symbol, 0 if none
RECURSIVE FindPosition(_, _, _)
FindPosition(items, symbol, i) ==
  IF i > Len(items) THEN 0
  ELSE IF items[i].symbol = symbol THEN i
  ELSE FindPosition(items, symbol, i + 1)

_get_position_qty(positions, symbol) ==
  IF ~positions.list THEN 0
  ELSE LET i == FindPosition(positions.items, symbol, 1)
       IN IF i = 0 THEN 0 ELSE positions.items[i].qty

_get_position_notional(positions, symbol) ==
  IF ~positions.list THEN 0
  ELSE LET i == FindPosition(positions.items, symbol, 1)
       IN IF i = 0 THEN 0 ELSE Abs(positions.items[i].market_value)

_estimate_order_notional(qty, notional, estimated_price) ==
  IF notional # None THEN notional
  ELSE IF qty = None THEN None
  ELSE IF estimated_price = None THEN None
  ELSE qty * estimated_price

\* ------------------------------------------------- live_risk_state.py
\* What data/live_state.json holds, by kind:
\*   "missing"           there is no file
\*   "not_json"          a text that is not JSON
\*   "not_object"        JSON that is not an object (a list, a number)
\*   "no_daily"          a JSON object without a "daily" entry
\*   "daily_not_object"  a JSON object whose "daily" entry is not an object
\*   "daily"             a JSON object whose "daily" entry is an object, with
\*                       its date and equity_start (None: the key is absent)
FileKinds == {"missing", "not_json", "not_object", "no_daily", "daily_not_object", "daily"}
FileOf(kind) == [kind |-> kind, date |-> None, equity_start |-> None]
DailyFile(date, equity_start) ==
  [kind |-> "daily", date |-> date, equity_start |-> equity_start]

NoDaily == FileOf("missing")

\* load_state: what json.loads gives, {} for a missing or unreadable file
load_state(file) ==
  IF file.kind = "missing" THEN FileOf("no_daily")
  ELSE IF file.kind = "not_json" THEN FileOf("no_daily")
  ELSE file

\* save_state: the state is written out as the new content of the file
save_state(state) == state

\* get_or_init_day_state, lines 30-33, on a loaded state: the day state, or
\* the exception raised by .get on a value that is not a dict
DayStateOf(state, day) ==
  IF state.kind = "not_object" THEN [raised |-> "AttributeError", stale |-> FALSE]
  ELSE IF state.kind = "daily_not_object" THEN [raised |-> "AttributeError", stale |-> FALSE]
  ELSE [raised |-> "", stale |-> (state.kind = "no_daily" \/ state.date # day)]

\* get_or_init_day_state keeping a baseline it finds, whatever its date
get_or_init_day_state_KeepOld(equity, write_ok) ==
  LET state == load_state(state_file)
      day_state == DayStateOf(state, today)
  IN IF day_state.raised # ""
       THEN [ret |-> FileOf("no_daily"), file |-> state_file, raised |-> day_state.raised,
             wrote |-> FALSE]
     ELSE IF day_state.stale /\ state.kind = "no_daily"
       THEN LET fresh == DailyFile(today, equity)
            IN IF write_ok
                 THEN [ret |-> fresh, file |-> save_state(fresh), raised |-> "", wrote |-> TRUE]
                 ELSE [ret |-> fresh, file |-> state_file, raised |-> "OSError", wrote |-> FALSE]
     ELSE [ret |-> state, file |-> state_file, raised |-> "", wrote |-> FALSE]

\* get_or_init_day_state writing a baseline on every call
get_or_init_day_state_AlwaysReset(equity, write_ok) ==
  LET state == load_state(state_file)
      day_state == DayStateOf(state, today)
  IN IF day_state.raised # ""
       THEN [ret |-> FileOf("no_daily"), file |-> state_file, raised |-> day_state.raised,
             wrote |-> FALSE]
     ELSE LET fresh == DailyFile(today, equity)
          IN IF write_ok
               THEN [ret |-> fresh, file |-> save_state(fresh), raised |-> "", wrote |-> TRUE]
               ELSE [ret |-> fresh, file |-> state_file, raised |-> "OSError", wrote |-> FALSE]

\* [ret: the day state returned, file: the file afterwards, raised: the
\* exception that ended the call, "" when it returned]; write_ok is whether
\* the file system takes the write of save_state
get_or_init_day_state(equity, write_ok) ==
  LET state == load_state(state_file)
      day_state == DayStateOf(state, today)
  IN IF day_state.raised # ""
       THEN [ret |-> FileOf("no_daily"), file |-> state_file, raised |-> day_state.raised,
             wrote |-> FALSE]
     ELSE IF day_state.stale
       THEN LET fresh == DailyFile(today, equity)
            IN IF write_ok
                 THEN [ret |-> fresh, file |-> save_state(fresh), raised |-> "", wrote |-> TRUE]
                 ELSE [ret |-> fresh, file |-> state_file, raised |-> "OSError", wrote |-> FALSE]
     ELSE [ret |-> state, file |-> state_file, raised |-> "", wrote |-> FALSE]

\* f"{x:.2%}" of num / den, in hundredths of a percent
FormatPct2(num, den) == (2 * num * 10000 + den) \div (2 * den)

\* _daily_loss_exceeded with > for >=
_daily_loss_exceeded_Strict(equity, write_ok) ==
  LET max_loss_pct == _get_env_float("MAX_DAILY_LOSS_PCT")
      skip == [err |-> NoError, file |-> state_file, equity_start |-> None, raised |-> ""]
  IN IF equity = None THEN skip
     ELSE IF max_loss_pct = None THEN skip
     ELSE LET got == get_or_init_day_state(equity, write_ok)
              equity_start == got.ret.equity_start
              passed == [err |-> NoError, file |-> got.file, equity_start |-> equity_start,
                         raised |-> got.raised]
          IN IF got.raised # "" THEN passed
             ELSE IF ~Truthy(equity_start) THEN passed
             ELSE IF Max(0, (equity_start - equity) * 100) > max_loss_pct * equity_start
               THEN [passed EXCEPT !.err =
                       Error("Daily loss {a:.2%} exceeds MAX_DAILY_LOSS_PCT {b:.2%}",
                             FormatPct2(Max(0, equity_start - equity), equity_start),
                             max_loss_pct * 100)]
             ELSE passed

\* [err: the message or NoError, file: the state file afterwards,
\*  equity_start: the baseline consulted, None when none was,
\*  raised: the exception of get_or_init_day_state, "" when there is none]
_daily_loss_exceeded(equity, write_ok) ==
  LET max_loss_pct == _get_env_float("MAX_DAILY_LOSS_PCT")
      skip == [err |-> NoError, file |-> state_file, equity_start |-> None, raised |-> ""]
  IN IF equity = None THEN skip
     ELSE IF max_loss_pct = None THEN skip
     ELSE LET got == get_or_init_day_state(equity, write_ok)
              equity_start == got.ret.equity_start
              passed == [err |-> NoError, file |-> got.file, equity_start |-> equity_start,
                         raised |-> got.raised]
          IN IF got.raised # "" THEN passed
             ELSE IF ~Truthy(equity_start) THEN passed
             ELSE IF Max(0, (equity_start - equity) * 100) >= max_loss_pct * equity_start
               THEN [passed EXCEPT !.err =
                       Error("Daily loss {a:.2%} exceeds MAX_DAILY_LOSS_PCT {b:.2%}",
                             FormatPct2(Max(0, equity_start - equity), equity_start),
                             max_loss_pct * 100)]
             ELSE passed

\* _ensure_position_limits testing the order alone against the position caps
_ensure_position_limits_OrderOnly(current_notional, order_notional, equity) ==
  LET max_pos_notional == _get_env_float("MAX_POSITION_NOTIONAL_USD")
      max_pos_pct == _get_env_float("MAX_POSITION_PCT_EQUITY")
      new_notional == order_notional
  IN IF max_pos_notional # None /\ new_notional > max_pos_notional
       THEN Error("Position notional {a} exceeds MAX_POSITION_NOTIONAL_USD {b}",
                  new_notional, max_pos_notional)
     ELSE IF max_pos_pct # None /\ Truthy(equity) /\ new_notional * 100 > equity * max_pos_pct
       THEN Error("Position notional {a} exceeds MAX_POSITION_PCT_EQUITY {b}",
                  new_notional, max_pos_pct)
     ELSE NoError

_ensure_position_limits(current_notional, order_notional, equity) ==
  LET max_pos_notional == _get_env_float("MAX_POSITION_NOTIONAL_USD")
      max_pos_pct == _get_env_float("MAX_POSITION_PCT_EQUITY")
      new_notional == current_notional + order_notional
  IN IF max_pos_notional # None /\ new_notional > max_pos_notional
       THEN Error("Position notional {a} exceeds MAX_POSITION_NOTIONAL_USD {b}",
                  new_notional, max_pos_notional)
     ELSE IF max_pos_pct # None /\ Truthy(equity) /\ new_notional * 100 > equity * max_pos_pct
       THEN Error("Position notional {a} exceeds MAX_POSITION_PCT_EQUITY {b}",
                  new_notional, max_pos_pct)
     ELSE NoError

\* int(x) and float(n) of a quantity counted in halves
ToInt(x) == x \div 2
FromInt(n) == n * 2

\* [x] * n
Repeat(x, n) == [i \in 1..n |-> x]

\* x / n in floating point; the sizes tried divide without a remainder
Divide(x, n) == x \div n

\* _split_equity_qty giving the remainder units to the last slices
_split_equity_qty_RemainderLast(total_qty, slices) ==
  IF slices <= 1 THEN <<total_qty>>
  ELSE LET base == ToInt(total_qty) \div slices
           remainder == ToInt(total_qty) % slices
       IN IF base <= 0 THEN <<FromInt(ToInt(total_qty))>>
          ELSE LET quantities ==
                     [idx \in 1..slices |->
                        IF idx > slices - remainder
                          THEN FromInt(base) + FromInt(1) ELSE FromInt(base)]
               IN SelectSeq(quantities, LAMBDA q : q > 0)

_split_equity_qty(total_qty, slices) ==
  IF slices <= 1 THEN <<total_qty>>
  ELSE LET base == ToInt(total_qty) \div slices
           remainder == ToInt(total_qty) % slices
       IN IF base <= 0 THEN <<FromInt(ToInt(total_qty))>>
          ELSE LET quantities ==
                     [idx \in 1..slices |->
                        IF idx <= remainder THEN FromInt(base) + FromInt(1) ELSE FromInt(base)]
               IN SelectSeq(quantities, LAMBDA q : q > 0)

_split_notional(total_notional, slices) ==
  IF slices <= 1 THEN <<total_notional>>
  ELSE Repeat(Divide(total_notional, slices), slices)

\* ------------------------------------------------- live_alerts.py
\* the entries notify_alert appends to the alert log; delivered is whether
\* the webhook and the mail went through
notify_alert(event, type, err, delivered) ==
  <<[event |-> event, type |-> type, symbol |-> Symbol,
     details |-> err.error, a |-> err.a, b |-> err.b]>>
  \o (IF delivered THEN <<>>
      ELSE <<[event |-> "alert_delivery_error", type |-> "", symbol |-> "",
              details |-> "", a |-> None, b |-> None]>>)

\* ------------------------------------------------- alpaca_broker.py
\* AlpacaBroker.submit_order: raises before any request when the order has
\* no size, else the outcome of the POST
submit_order(qty, notional, http_ok) ==
  IF ~Truthy(qty) /\ notional = None THEN "ValueError"
  ELSE IF http_ok THEN "ok"
  ELSE "RuntimeError"

\* ------------------------------------------------- the broker's book
\* the price at which the broker fills and values Symbol while its holding
\* is followed; the callers pass it as estimated_price
BookPrice == 1

\* what list_positions returns for a followed holding: Symbol is listed
\* when it is held long or short
BookPositions ==
  <<[symbol |-> OtherSymbol, qty |-> 18, market_value |-> 18]>>
  \o (IF book.qty = 0 THEN <<>>
      ELSE <<[symbol |-> Symbol, qty |-> book.qty, market_value |-> book.qty * BookPrice]>>)

\* the answers of the broker to list_positions: anything when the holding
\* is not followed, else the holding or a failure
list_positions ==
  IF book.tracked
    THEN {[ok |-> TRUE, list |-> TRUE, items |-> BookPositions],
          [ok |-> FALSE, list |-> FALSE, items |-> <<>>]}
  ELSE PositionAnswers

\* the holding once the broker has filled an accepted order, at BookPrice
Filled(side, qty, notional) ==
  IF ~book.tracked THEN book
  ELSE LET filled == IF qty # None THEN qty ELSE notional \div BookPrice
       IN Holding(IF side = "buy" THEN book.qty + filled ELSE book.qty - filled)

\* ------------------------------------------------- the tool calls
\* live_buy / live_sell return res (or raise): to the caller of the tool, or
\* to the loop of live_twap_order (lines 394-396 and 421-423), which appends
\* it and sleeps; an exception leaves the loop
Return(res) ==
  IF twap.active /\ res.kind # "raised"
    THEN /\ twap' = [twap EXCEPT !.results = Append(@, res),
                                 !.sleeps = IF twap.delay > 0 THEN Append(@, twap.delay) ELSE @]
         /\ pc' = "twap_next"
         /\ UNCHANGED result
    ELSE /\ result' = res
         /\ pc' = "done"
         /\ UNCHANGED twap

\* the call goes on at label
Goto(label) ==
  /\ pc' = label
  /\ UNCHANGED <<result, twap>>

\* BuyStart without the size check
BuyStart_NoSizeCheck(tool, side, args) ==
  /\ call' = Call(tool, IF Len(args) > 3 THEN args[4] ELSE side, side, args)
  /\ frame' = NoFrame
  /\ Goto("buy_get_account")
  /\ UNCHANGED <<env, today, state_file, calls, orders, alerts, loss_day, others>>

\* BuyStart going straight to the broker from the second slice on, on the
\* strength of the evaluation of the slice before
BuyStart_ReuseSnapshot(tool, side, args) ==
  /\ call' = Call(tool, IF Len(args) > 3 THEN args[4] ELSE side, side, args)
  /\ IF args[1] = None /\ args[2] = None
       THEN /\ Return(ErrorResult(Error("Either qty or notional must be provided", None, None)))
            /\ frame' = NoFrame
       ELSE IF twap.active /\ twap.results # <<>> /\ frame.loss_checked
         THEN /\ Goto("buy_submit")
              /\ UNCHANGED frame
       ELSE /\ Goto("buy_get_account")
            /\ frame' = NoFrame
  /\ UNCHANGED <<env, today, state_file, calls, orders, alerts, loss_day, others>>

\* live_buy, lines 190-193: the size check
BuyStart(tool, side, args) ==
  /\ call' = Call(tool, IF Len(args) > 3 THEN args[4] ELSE side, side, args)
  /\ frame' = NoFrame
  /\ IF args[1] = None /\ args[2] = None
       THEN Return(ErrorResult(Error("Either qty or notional must be provided", None, None)))
       ELSE Goto("buy_get_account")
  /\ UNCHANGED <<env, today, state_file, calls, orders, alerts, loss_day, others>>

\* SellStart refusing to sell on a day the daily-loss check has rejected a buy
SellStart_DailyLoss(tool, side, args) ==
  /\ call' = Call(tool, IF Len(args) > 3 THEN args[4] ELSE side, side, args)
  /\ frame' = NoFrame
  /\ IF (args[1] = None /\ args[2] = None) \/ loss_day = today
       THEN Return(ErrorResult(Error("Either qty or notional must be provided", None, None)))
       ELSE LET allow_short ==
                  Lower(IF env.ALLOW_SHORT = "unset" THEN "false" ELSE env.ALLOW_SHORT) = "true"
            IN Goto(IF ~allow_short /\ args[1] # None
                      THEN "sell_list_positions" ELSE "sell_submit")
  /\ UNCHANGED <<env, today, state_file, calls, orders, alerts, loss_day, others>>

\* live_sell, lines 270-274: the size check and the choice of the guard
SellStart(tool, side, args) ==
  /\ call' = Call(tool, IF Len(args) > 3 THEN args[4] ELSE side, side, args)
  /\ frame' = NoFrame
  /\ IF args[1] = None /\ args[2] = None
       THEN Return(ErrorResult(Error("Either qty or notional must be provided", None, None)))
       ELSE LET allow_short ==
                  Lower(IF env.ALLOW_SHORT = "unset" THEN "false" ELSE env.ALLOW_SHORT) = "true"
            IN Goto(IF ~allow_short /\ args[1] # None
                      THEN "sell_list_positions" ELSE "sell_submit")
  /\ UNCHANGED <<env, today, state_file, calls, orders, alerts, loss_day, others>>

live_buy ==
  /\ pc = "idle"
  /\ \E args \in SizeArgs : BuyStart("live_buy", "buy", args)

live_sell ==
  /\ pc = "idle"
  /\ \E args \in SizeArgs : SellStart("live_sell", "sell", args)

\* the sides a caller passes
SideArgs == {"buy", "BUY", "sell", "Sell", "hold", "buy "}

live_place_order ==
  /\ pc = "idle"
  /\ \E raw \in SideArgs, args \in PlaceSizeArgs :
       LET side == Lower(raw)
       IN IF side \notin {"buy", "sell"}
            THEN /\ call' = Call("live_place_order", raw, side, args)
                 /\ frame' = NoFrame
                 /\ Return(ErrorResult(Error("side must be buy or sell", None, None)))
                 /\ UNCHANGED <<env, today, state_file, calls, orders, alerts, loss_day, others>>
          ELSE IF side = "buy" THEN BuyStart("live_place_order", side, args \o <<raw>>)
          ELSE SellStart("live_place_order", side, args \o <<raw>>)

\* AnyNotionalLimit looking at the two per-order limits only
AnyNotionalLimit_OrderOnly ==
  \E key \in {"MAX_ORDER_NOTIONAL_USD", "MAX_ORDER_PCT_EQUITY"} :
     _get_env_float(key) # None

\* whether one of the four notional limits is configured (lines 207-215)
AnyNotionalLimit ==
  \E key \in {"MAX_ORDER_NOTIONAL_USD", "MAX_ORDER_PCT_EQUITY",
               "MAX_POSITION_NOTIONAL_USD", "MAX_POSITION_PCT_EQUITY"} :
     _get_env_float(key) # None

\* insufficient_buying_power without the test for an unknown buying power
insufficient_buying_power_NoNoneTest(order_notional, buying_power) ==
  order_notional > buying_power

\* live_buy, line 228: the buying-power test
insufficient_buying_power(order_notional, buying_power) ==
  buying_power # None /\ order_notional > buying_power

\* live_buy, lines 193-230: the account snapshot and the checks made on it
buy_get_account ==
  /\ pc = "buy_get_account"
  /\ \E account \in AccountAnswers, delivered \in BOOLEAN, write_ok \in BOOLEAN :
       /\ calls' = Append(calls, "get_account")
       /\ IF ~account.ok
            THEN /\ Return(Raised("get_account"))
                 /\ delivered /\ write_ok
                 /\ UNCHANGED <<frame, state_file, alerts, loss_day>>
          ELSE
            LET equity == ToFloat(account.equity)
                buying_power == ToFloat(account.buying_power)
                order_notional ==
                  _estimate_order_notional(call.qty, call.notional, call.estimated_price)
                f0 == [frame EXCEPT !.account = <<account.equity, account.buying_power>>,
                                    !.equity = equity, !.buying_power = buying_power,
                                    !.order_notional = order_notional]
            IN IF order_notional = None /\ AnyNotionalLimit
                 THEN /\ Return(ErrorResult(Error(
                           "estimated_price is required when qty is used with notional limits",
                           None, None)))
                      /\ delivered /\ write_ok
                      /\ frame' = f0
                      /\ UNCHANGED <<state_file, alerts, loss_day>>
               ELSE
                 LET loss == _daily_loss_exceeded(equity, write_ok)
                     f1 == [f0 EXCEPT !.loss_checked = TRUE,
                                      !.tripped_before = (loss_day = today),
                                      !.equity_start = loss.equity_start,
                                      !.loss_error = loss.err]
                 IN /\ state_file' = loss.file
                    /\ (loss.file = state_file /\ loss.raised = "") => write_ok
                    /\ IF loss.raised # ""
                         THEN /\ Return(Raised(loss.raised))
                              /\ delivered
                              /\ frame' = f0
                              /\ UNCHANGED <<alerts, loss_day>>
                       ELSE IF loss.err # NoError
                         THEN /\ alerts' = alerts \o
                                   notify_alert("risk_limit_triggered", "daily_loss", loss.err, delivered)
                              /\ Return(ErrorResult(loss.err))
                              /\ frame' = f1
                              /\ loss_day' = today
                       ELSE IF order_notional = None
                         THEN /\ Goto("buy_submit")
                              /\ delivered
                              /\ frame' = f1
                              /\ UNCHANGED <<alerts, loss_day>>
                       ELSE
                         LET limit_error == _ensure_notional_limits(order_notional, equity)
                             f2 == [f1 EXCEPT !.limit_error = limit_error]
                         IN /\ frame' = f2
                            /\ UNCHANGED loss_day
                            /\ IF limit_error # NoError
                                 THEN /\ alerts' = alerts \o
                                           notify_alert("risk_limit_triggered", "order_notional",
                                                        limit_error, delivered)
                                      /\ Return(ErrorResult(limit_error))
                               ELSE IF insufficient_buying_power(order_notional, buying_power)
                                 THEN /\ alerts' = alerts \o
                                           notify_alert("risk_limit_triggered", "buying_power",
                                                        Error("Insufficient buying power", None, None),
                                                        delivered)
                                      /\ Return(ErrorResult(
                                           Error("Insufficient buying power", None, buying_power)))
                               ELSE /\ Goto("buy_list_positions")
                                    /\ delivered
                                    /\ UNCHANGED alerts
  /\ UNCHANGED <<env, today, call, orders, others>>

\* buy_list_positions going on to the broker whatever the position check says
buy_list_positions_NoAbort ==
  /\ pc = "buy_list_positions"
  /\ \E positions \in list_positions :
       /\ calls' = Append(calls, "list_positions")
       /\ IF ~positions.ok
            THEN /\ Return(Raised("list_positions"))
                 /\ UNCHANGED frame
          ELSE
            LET current_notional == _get_position_notional(positions, Symbol)
                position_error ==
                  _ensure_position_limits(current_notional, frame.order_notional, frame.equity)
            IN /\ frame' = [frame EXCEPT !.current_notional = current_notional,
                                         !.position_error = position_error]
               /\ Goto("buy_submit")
  /\ UNCHANGED <<env, today, state_file, call, orders, alerts, loss_day, others>>

\* live_buy, lines 232-237: the positions and the position limits
buy_list_positions ==
  /\ pc = "buy_list_positions"
  /\ \E positions \in list_positions, delivered \in BOOLEAN :
       /\ calls' = Append(calls, "list_positions")
       /\ IF ~positions.ok
            THEN /\ Return(Raised("list_positions"))
                 /\ delivered
                 /\ UNCHANGED <<frame, alerts>>
          ELSE
            LET current_notional == _get_position_notional(positions, Symbol)
                position_error ==
                  _ensure_position_limits(current_notional, frame.order_notional, frame.equity)
            IN /\ frame' = [frame EXCEPT !.current_notional = current_notional,
                                         !.position_error = position_error]
               /\ IF position_error # NoError
                    THEN /\ alerts' = alerts \o
                              notify_alert("risk_limit_triggered", "position_limit",
                                           position_error, delivered)
                         /\ Return(ErrorResult(position_error))
                    ELSE /\ Goto("buy_submit")
                         /\ delivered
                         /\ UNCHANGED alerts
  /\ UNCHANGED <<env, today, state_file, call, orders, loss_day, others>>

\* lines 243-255 and 285-297: the order goes to the broker
Submit(side) ==
  \E http_ok \in BOOLEAN :
    LET outcome == submit_order(call.qty, call.notional, http_ok)
    IN /\ calls' = Append(calls, "submit_order")
       /\ (outcome = "ValueError") => http_ok
       /\ IF outcome = "ok"
            THEN /\ orders' = Append(orders, [symbol |-> Symbol, side |-> side,
                                               qty |-> call.qty, notional |-> call.notional])
                 /\ book' = Filled(side, call.qty, call.notional)
                 /\ Return(OrderResult)
            ELSE /\ Return(ErrorResult(Error(outcome, None, None)))
                 /\ UNCHANGED <<orders, book>>

buy_submit ==
  /\ pc = "buy_submit"
  /\ Submit("buy")
  /\ UNCHANGED <<env, today, state_file, call, frame, alerts, loss_day, apart>>

\* sell_list_positions refusing also a sell of exactly the held quantity
sell_list_positions_Inclusive ==
  /\ pc = "sell_list_positions"
  /\ \E positions \in list_positions :
       /\ calls' = Append(calls, "list_positions")
       /\ IF ~positions.ok
            THEN /\ Return(Raised("list_positions"))
                 /\ UNCHANGED frame
          ELSE
            LET current_qty == _get_position_qty(positions, Symbol)
            IN /\ frame' = [frame EXCEPT !.current_qty = current_qty]
               /\ IF call.qty >= current_qty
                    THEN Return(ErrorResult(
                           Error("Shorting disabled or insufficient position", None, current_qty)))
                    ELSE Goto("sell_submit")
  /\ UNCHANGED <<env, today, state_file, call, orders, alerts, loss_day, others>>

\* live_sell, lines 275-278: the short-sale guard
sell_list_positions ==
  /\ pc = "sell_list_positions"
  /\ \E positions \in list_positions :
       /\ calls' = Append(calls, "list_positions")
       /\ IF ~positions.ok
            THEN /\ Return(Raised("list_positions"))
                 /\ UNCHANGED frame
          ELSE
            LET current_qty == _get_position_qty(positions, Symbol)
            IN /\ frame' = [frame EXCEPT !.current_qty = current_qty]
               /\ IF call.qty > current_qty
                    THEN Return(ErrorResult(
                           Error("Shorting disabled or insufficient position", None, current_qty)))
                    ELSE Goto("sell_submit")
  /\ UNCHANGED <<env, today, state_file, call, orders, alerts, loss_day, others>>

sell_submit ==
  /\ pc = "sell_submit"
  /\ Submit("sell")
  /\ UNCHANGED <<env, today, state_file, call, frame, alerts, loss_day, apart>>

\* the caller takes the result; the logs of the call are closed
Respond ==
  /\ pc = "done"
  /\ pc' = "idle"
  /\ call' = NoCall
  /\ frame' = NoFrame
  /\ result' = NoResult
  /\ calls' = <<>>
  /\ orders' = <<>>
  /\ alerts' = <<>>
  /\ twap' = NoTwap
  /\ UNCHANGED <<env, today, state_file, loss_day, others>>

\* the UTC date changes.  The date is read in buy_get_account only
\* (get_or_init_day_state), so a change at any other point of a call is the
\* same as one just before the next call.
Midnight ==
  /\ pc \in {"idle", "buy_get_account"}
  /\ today < MaxDay
  /\ today' = today + 1
  /\ UNCHANGED <<env, state_file, pc, call, frame, result, calls, orders, alerts, twap,
                 loss_day, others>>

\* live_twap_order, lines 356-370 and 399: the checks and the plan
TwapStart(c) ==
       LET side == Lower(c.side)
           qty == c.size[1]
           notional == c.size[2]
           slice_count ==
             IF Truthy(c.slices) THEN c.slices ELSE _get_env_int("TWAP_SLICES", TWAP_SLICES_DEFAULT)
           delay ==
             IF Truthy(c.interval_seconds) THEN c.interval_seconds
             ELSE _get_env_int("TWAP_INTERVAL_SECONDS", TWAP_INTERVAL_DEFAULT)
           started == Call("live_twap_order", c.side, side, c.size)
           locals == [NoTwap EXCEPT !.active = TRUE, !.side_arg = c.side, !.side = side,
                                    !.asset_class = c.asset_class, !.qty = qty,
                                    !.notional = notional, !.estimated_price = c.size[3],
                                    !.slices = c.slices,
                                    !.interval_seconds = c.interval_seconds,
                                    !.slice_count = slice_count, !.delay = delay]
       IN /\ call' = started
          /\ IF side \notin {"buy", "sell"}
               THEN /\ result' = ErrorResult(Error("side must be buy or sell", None, None))
                    /\ pc' = "done"
                    /\ UNCHANGED twap
             ELSE IF qty = None /\ notional = None
               THEN /\ result' =
                         ErrorResult(Error("Either qty or notional must be provided", None, None))
                    /\ pc' = "done"
                    /\ UNCHANGED twap
             ELSE IF qty # None /\ c.asset_class # "equity" /\ slice_count = 0
               THEN /\ result' = Raised("ZeroDivisionError")
                    /\ pc' = "done"
                    /\ twap' = locals
             ELSE /\ twap' =
                       [locals EXCEPT !.plan =
                          IF qty # None
                            THEN IF c.asset_class = "equity"
                                   THEN _split_equity_qty(qty, slice_count)
                                 ELSE Repeat(Divide(qty, slice_count), slice_count)
                          ELSE _split_notional(notional, slice_count)]
                  /\ pc' = "twap_next"
                  /\ UNCHANGED result

live_twap_order ==
  /\ pc = "idle"
  /\ \E c \in TwapCalls : TwapStart(c)
  /\ UNCHANGED <<env, today, state_file, frame, calls, orders, alerts, loss_day, others>>

\* live_twap_order, lines 371-397 and 400-425: the loop takes the next slice
\* to live_buy or live_sell, or returns the results
twap_next ==
  /\ pc = "twap_next"
  /\ IF Len(twap.results) < Len(twap.plan)
       THEN LET slice == twap.plan[Len(twap.results) + 1]
                size == IF twap.qty # None
                          THEN <<slice, None, twap.estimated_price, twap.side_arg>>
                        ELSE <<None, slice, None, twap.side_arg>>
            IN IF twap.side = "buy"
                 THEN BuyStart("live_twap_order", "buy", size)
                 ELSE SellStart("live_twap_order", "sell", size)
       ELSE /\ result' = [kind |-> "twap", error |-> "", a |-> Len(twap.results), b |-> None]
            /\ pc' = "done"
            /\ UNCHANGED <<env, today, state_file, call, frame, calls, orders, alerts, twap,
                           loss_day, others>>

Init ==
  /\ env \in TwapEnvs
  /\ today = 1
  /\ state_file \in {NoDaily, DailyFile(0, 100)}
  /\ pc = "idle"
  /\ call = NoCall
  /\ frame = NoFrame
  /\ result = NoResult
  /\ calls = <<>>
  /\ orders = <<>>
  /\ alerts = <<>>
  /\ twap = NoTwap
  /\ loss_day = None
  /\ OthersIdle

\* the runs that place orders one by one, under every set of limits
RouterInit ==
  /\ env \in EnvSet
  /\ today = 1
  /\ state_file \in {NoDaily, DailyFile(0, 100)}
  /\ pc = "idle"
  /\ call = NoCall
  /\ frame = NoFrame
  /\ result = NoResult
  /\ calls = <<>>
  /\ orders = <<>>
  /\ alerts = <<>>
  /\ twap = NoTwap
  /\ loss_day = None
  /\ OthersIdle

RouterNext ==
  \/ live_buy
  \/ live_sell
  \/ live_place_order
  \/ buy_get_account
  \/ buy_list_positions
  \/ buy_submit
  \/ sell_list_positions
  \/ sell_submit
  \/ Respond
  \/ Midnight

Next ==
  \/ live_buy
  \/ live_sell
  \/ live_place_order
  \/ live_twap_order
  \/ twap_next
  \/ buy_get_account
  \/ buy_list_positions
  \/ buy_submit
  \/ sell_list_positions
  \/ sell_submit
  \/ Respond
  \/ Midnight

Spec == Init /\ [][Next]_vars

RouterSpec == RouterInit /\ [][RouterNext]_vars

\* ------------------------------------------------- the slicing plans
\* The plan of live_twap_order (lines 366-370 and 399) on its own, for every
\* total up to MaxTotal and every slice count up to MaxSlices.  Equity
\* quantities are any number of halves; the crypto quantities and the
\* notionals are those the slice count divides, for which the floating-point
\* quotient is exact.
NoLimits ==
  [ MAX_ORDER_NOTIONAL_USD |-> Unset, MAX_ORDER_PCT_EQUITY |-> Unset,
    MAX_POSITION_NOTIONAL_USD |-> Unset, MAX_POSITION_PCT_EQUITY |-> Unset,
    MAX_DAILY_LOSS_PCT |-> Unset, ALLOW_SHORT |-> "unset",
    TWAP_SLICES |-> Unset, TWAP_INTERVAL_SECONDS |-> Unset ]

PlanInputs ==
  { [NoTwap EXCEPT !.active = TRUE, !.side_arg = "buy", !.side = "buy",
                   !.asset_class = "equity", !.qty = q, !.slice_count = n] :
      q \in 0..MaxTotal, n \in 1..MaxSlices }
  \cup
  { [NoTwap EXCEPT !.active = TRUE, !.side_arg = "buy", !.side = "buy",
                   !.asset_class = "crypto", !.qty = n * k, !.slice_count = n] :
      n \in 1..MaxSlices, k \in 0..(MaxTotal \div MaxSlices) }
  \cup
  { [NoTwap EXCEPT !.active = TRUE, !.side_arg = "buy", !.side = "buy",
                   !.asset_class = a, !.notional = n * k, !.slice_count = n] :
      a \in {"equity", "crypto"}, n \in 1..MaxSlices, k \in 0..(MaxTotal \div MaxSlices) }

PlanInit ==
  /\ env = NoLimits
  /\ today = 1
  /\ state_file = NoDaily
  /\ pc = "twap_plan"
  /\ call = NoCall
  /\ frame = NoFrame
  /\ result = NoResult
  /\ calls = <<>>
  /\ orders = <<>>
  /\ alerts = <<>>
  /\ twap \in PlanInputs
  /\ loss_day = None
  /\ OthersIdle

\* lines 367-368
plan_equity_qty ==
  /\ pc = "twap_plan"
  /\ twap.qty # None /\ twap.asset_class = "equity"
  /\ twap' = [twap EXCEPT !.plan = _split_equity_qty(twap.qty, twap.slice_count)]
  /\ pc' = "twap_planned"
  /\ UNCHANGED <<env, today, state_file, call, frame, result, calls, orders, alerts,
                 loss_day, others>>

\* lines 369-370
plan_crypto_qty ==
  /\ pc = "twap_plan"
  /\ twap.qty # None /\ twap.asset_class # "equity"
  /\ twap' = [twap EXCEPT !.plan = Repeat(Divide(twap.qty, twap.slice_count), twap.slice_count)]
  /\ pc' = "twap_planned"
  /\ UNCHANGED <<env, today, state_file, call, frame, result, calls, orders, alerts,
                 loss_day, others>>

\* line 399
plan_notional ==
  /\ pc = "twap_plan"
  /\ twap.qty = None
  /\ twap' = [twap EXCEPT !.plan = _split_notional(twap.notional, twap.slice_count)]
  /\ pc' = "twap_planned"
  /\ UNCHANGED <<env, today, state_file, call, frame, result, calls, orders, alerts,
                 loss_day, others>>

PlanNext ==
  \/ plan_equity_qty
  \/ plan_crypto_qty
  \/ plan_notional

PlanSpec == PlanInit /\ [][PlanNext]_vars

\* ------------------------------------------------- the state store
\* get_or_init_day_state on its own: first called one call after the other
\* (by one process or by several, each starting from the file), then by two
\* processes whose calls overlap.
MaxCalls == 3

StoreEquities == {90, 100}

\* the files a call can find
StoreFiles ==
  {FileOf(kind) : kind \in FileKinds \ {"daily"}}
    \cup {DailyFile(0, 100), DailyFile(1, 100), DailyFile(None, 100)}

\* no order tool is at work
ToolsIdle ==
  /\ env = NoLimits
  /\ pc = "idle"
  /\ call = NoCall
  /\ frame = NoFrame
  /\ result = NoResult
  /\ calls = <<>>
  /\ orders = <<>>
  /\ alerts = <<>>
  /\ twap = NoTwap
  /\ loss_day = None

tool_vars == <<env, pc, call, frame, result, calls, orders, alerts, twap, loss_day, book>>

StoreInit ==
  /\ ToolsIdle
  /\ OthersIdle
  /\ today = 1
  /\ state_file \in StoreFiles

\* one whole call of get_or_init_day_state(equity), lines 28-41
day_state_call ==
  /\ Len(returned) < MaxCalls
  /\ \E equity \in StoreEquities, write_ok \in BOOLEAN :
       LET got == get_or_init_day_state(equity, write_ok)
       IN /\ (got.raised # "OSError" /\ ~got.wrote) => write_ok
          /\ state_file' = got.file
          /\ returned' = Append(returned,
                 [day |-> today, equity |-> equity, before |-> state_file, ret |-> got.ret,
                  raised |-> got.raised, wrote |-> got.wrote, after |-> got.file])
  /\ UNCHANGED <<today, tool_vars, callers, lock_file, now, sched, session>>

\* the UTC date changes between two calls
store_midnight ==
  /\ today < MaxDay
  /\ today' = today + 1
  /\ UNCHANGED <<state_file, tool_vars, others>>

StoreNext ==
  \/ day_state_call
  \/ store_midnight

StoreSpec == StoreInit /\ [][StoreNext]_vars

\* line 29: the call begins and reads the date
race_begin ==
  /\ Len(returned) + Cardinality({q \in Callers : callers[q].pc # "idle"}) < MaxCalls
  /\ \E p \in Callers, equity \in StoreEquities :
       /\ callers[p].pc = "idle"
       /\ callers' = [callers EXCEPT ![p] =
                        [IdleCaller EXCEPT !.pc = "load", !.equity = equity, !.today = today]]
  /\ UNCHANGED <<today, state_file, tool_vars, returned, lock_file, now, sched, session>>

\* lines 30-33: the file is read and the date of its day state compared
race_load ==
  /\ \E p \in Callers :
       /\ callers[p].pc = "load"
       /\ LET state == load_state(state_file)
               day_state == DayStateOf(state, callers[p].today)
           IN callers' = [callers EXCEPT ![p] =
                [@ EXCEPT !.before = <<state_file>>,
                          !.pc = IF day_state.raised = "" /\ day_state.stale
                                   THEN "save" ELSE "end",
                          !.raised = day_state.raised,
                          !.ret = IF day_state.raised = "" /\ ~day_state.stale
                                    THEN <<state>> ELSE <<>>]]
  /\ UNCHANGED <<today, state_file, tool_vars, returned, lock_file, now, sched, session>>

\* lines 34-39: the fresh day state is written out
race_save ==
  /\ \E p \in Callers, write_ok \in BOOLEAN :
       /\ callers[p].pc = "save"
       /\ LET fresh == DailyFile(callers[p].today, callers[p].equity)
           IN IF write_ok
                THEN /\ state_file' = save_state(fresh)
                     /\ callers' = [callers EXCEPT ![p] =
                          [@ EXCEPT !.pc = "end", !.ret = <<fresh>>, !.wrote = TRUE]]
                ELSE /\ UNCHANGED state_file
                     /\ callers' = [callers EXCEPT ![p] =
                          [@ EXCEPT !.pc = "end", !.raised = "OSError"]]
  /\ UNCHANGED <<today, tool_vars, returned, lock_file, now, sched, session>>

\* line 41: the call returns (or has raised)
race_end ==
  /\ \E p \in Callers :
       /\ callers[p].pc = "end"
       /\ returned' = Append(returned,
              [day |-> callers[p].today, equity |-> callers[p].equity,
               before |-> callers[p].before[1],
               ret |-> IF callers[p].ret = <<>> THEN FileOf("no_daily") ELSE callers[p].ret[1],
               raised |-> callers[p].raised, wrote |-> callers[p].wrote,
               after |-> state_file])
       /\ callers' = [callers EXCEPT ![p] = IdleCaller]
  /\ UNCHANGED <<today, state_file, tool_vars, lock_file, now, sched, session>>

RaceNext ==
  \/ race_begin
  \/ race_load
  \/ race_save
  \/ race_end
  \/ store_midnight

RaceSpec == StoreInit /\ [][RaceNext]_vars

\* --------------------------------------------------- the scheduler
\* Scheduler processes sharing data/live_scheduler.lock. Time is counted in
\* units of half the lock's time to live.
MaxTime == 4

\* line 73: LIVE_RUN_LOCK_TTL_SECONDS, in units of time
lock_ttl == 2

\* a lock taken over only when it is older than the ttl
Expired_Strict(at, last) == last = Garbage \/ at - last > lock_ttl

\* lines 38-42: the lock read as last is at least ttl_seconds old; a text
\* that is not a number is read as 0.0, the epoch
Expired(at, last) == last = Garbage \/ at - last >= lock_ttl

LockInit ==
  /\ ToolsIdle
  /\ today = 1
  /\ state_file = NoDaily
  /\ callers = [p \in Callers |-> IdleCaller]
  /\ returned = <<>>
  /\ now = 0
  /\ sched = [p \in Schedulers |-> IdleScheduler]
  /\ lock_file \in {NoLock, LockOf(0, 0), LockOf(Garbage, 0)}
  /\ session = NoSession
  /\ book = Untracked

store_vars == <<today, state_file, callers, returned>>

\* time passes
clock_tick ==
  /\ now < MaxTime
  /\ now' = now + 1
  /\ UNCHANGED <<tool_vars, store_vars, lock_file, sched, session>>

\* lines 85-90 and 96: the market is closed, the tick is slept through
tick_skip ==
  /\ \E p \in Schedulers :
       /\ sched[p].pc = "tick"
       /\ sched' = [sched EXCEPT ![p] = [IdleScheduler EXCEPT !.pc = "sleep"]]
  /\ UNCHANGED <<tool_vars, store_vars, lock_file, now, session>>

\* lines 36-43 of _acquire_lock, called at line 78 or 91: the time is
\* taken and the lock looked at; a lock younger than the ttl refuses
acquire_check ==
  /\ \E p \in Schedulers :
       /\ sched[p].pc = "tick"
       /\ LET last == IF lock_file.exists THEN lock_file.text ELSE None
           IN sched' = [sched EXCEPT ![p] =
                [pc |-> IF lock_file.exists /\ ~Expired(now, last) THEN "sleep" ELSE "write",
                 now |-> now, last |-> last, outcome |-> ""]]
  /\ UNCHANGED <<tool_vars, store_vars, lock_file, now, session>>

\* lines 44-46 of _acquire_lock: the lock is stamped with the time taken
acquire_write ==
  /\ \E p \in Schedulers :
       /\ sched[p].pc = "write"
       /\ lock_file' = LockOf(sched[p].now, p)
       /\ sched' = [sched EXCEPT ![p].pc = "run"]
  /\ UNCHANGED <<tool_vars, store_vars, now, session>>

\* a session that leaves the try block without its finally clause when it
\* raises
run_once_NoFinally ==
  /\ \E p \in Schedulers, outcome \in {"returned", "raised"} :
       /\ sched[p].pc = "run"
       /\ sched' = [sched EXCEPT ![p].pc = IF outcome = "raised" THEN "exited" ELSE "release",
                                 ![p].outcome = outcome]
  /\ UNCHANGED <<tool_vars, store_vars, lock_file, now, session>>

\* lines 80-81 and 93-94: the session ends, by returning or by raising, and
\* the finally clause is entered
run_once ==
  /\ \E p \in Schedulers, outcome \in {"returned", "raised"} :
       /\ sched[p].pc = "run"
       /\ sched' = [sched EXCEPT ![p].pc = "release", ![p].outcome = outcome]
  /\ UNCHANGED <<tool_vars, store_vars, lock_file, now, session>>

\* where the process stands once the finally clause is through: an
\* exception of the session, or of the clause itself, leaves main
AfterFinally(p, raised) ==
  IF raised \/ sched[p].outcome = "raised" THEN "exited" ELSE "sleep"

\* _release_lock, line 51, called at line 82 or 95: is there a lock file
release_exists ==
  /\ \E p \in Schedulers :
       /\ sched[p].pc = "release"
       /\ sched' = [sched EXCEPT ![p].pc =
                      IF lock_file.exists THEN "unlink" ELSE AfterFinally(p, FALSE)]
  /\ UNCHANGED <<tool_vars, store_vars, lock_file, now, session>>

\* _release_lock, line 52: the file is removed; unlink raises
\* FileNotFoundError when it has gone since line 51
release_unlink ==
  /\ \E p \in Schedulers :
       /\ sched[p].pc = "unlink"
       /\ lock_file' = NoLock
       /\ sched' = [sched EXCEPT ![p].pc = AfterFinally(p, ~lock_file.exists)]
  /\ UNCHANGED <<tool_vars, store_vars, now, session>>

\* line 96: the interval is over
sleep ==
  /\ \E p \in Schedulers :
       /\ sched[p].pc = "sleep"
       /\ sched' = [sched EXCEPT ![p] = IdleScheduler]
  /\ UNCHANGED <<tool_vars, store_vars, lock_file, now, session>>

\* the process is killed where it stands and started again (line 67); the
\* lock file stays as it is
restart ==
  /\ \E p \in Schedulers :
       /\ sched[p].pc # "tick"
       /\ sched' = [sched EXCEPT ![p] = IdleScheduler]
  /\ UNCHANGED <<tool_vars, store_vars, lock_file, now, session>>

LockNext ==
  \/ clock_tick
  \/ tick_skip
  \/ acquire_check
  \/ acquire_write
  \/ run_once
  \/ release_exists
  \/ release_unlink
  \/ sleep
  \/ restart

LockSpec == LockInit /\ [][LockNext]_vars

\* the schedulers left to themselves: no process is killed.  Time goes on,
\* a session ends, a process that is not asleep takes its next step, and a
\* scheduler that comes to its tick again and again is not kept from
\* running by a closed market every time.
LockLiveNext ==
  \/ clock_tick
  \/ tick_skip
  \/ acquire_check
  \/ acquire_write
  \/ run_once
  \/ release_exists
  \/ release_unlink
  \/ sleep

LockLiveSpec ==
  /\ LockInit
  /\ [][LockLiveNext]_vars
  /\ WF_vars(clock_tick)
  /\ SF_vars(acquire_check)
  /\ WF_vars(acquire_write)
  /\ WF_vars(run_once)
  /\ WF_vars(release_exists)
  /\ WF_vars(release_unlink)
  /\ WF_vars(sleep)

\* ------------------------------------------- orders on a followed book
\* Direct orders and sliced orders one after the other, against a broker
\* that fills every order it accepts at BookPrice and lists the holding as
\* it then is.  The position cap is configured; sells are by quantity.
BookEnvs ==
  [ MAX_ORDER_NOTIONAL_USD : {Unset, 10},
    MAX_ORDER_PCT_EQUITY : {Unset},
    MAX_POSITION_NOTIONAL_USD : {16},
    MAX_POSITION_PCT_EQUITY : {Unset},
    MAX_DAILY_LOSS_PCT : {Unset},
    ALLOW_SHORT : {"unset", "false"},
    TWAP_SLICES : {Unset, 2}, TWAP_INTERVAL_SECONDS : {Unset} ]

\* the holdings of Symbol at the start, in halves: worth the cap at most
BookStart == {Holding(qty) : qty \in {0, 2, 8, 16}}

\* (qty, notional, estimated_price) of the direct buys and sells
BookBuyArgs == { <<4, None, BookPrice>>, <<4, None, None>>, <<None, 6, None>>, <<None, 12, None>> }
BookSellArgs == { <<4, None, None>>, <<2, None, BookPrice>> }

BookTwapCalls ==
  { [side |-> "buy", asset_class |-> "equity", size |-> <<6, None, BookPrice>>,
     slices |-> 2, interval_seconds |-> None],
    [side |-> "buy", asset_class |-> "crypto", size |-> <<None, 12, None>>,
     slices |-> None, interval_seconds |-> None],
    [side |-> "sell", asset_class |-> "equity", size |-> <<10, None, None>>,
     slices |-> 3, interval_seconds |-> None],
    [side |-> "sell", asset_class |-> "crypto", size |-> <<4, None, None>>,
     slices |-> 2, interval_seconds |-> None] }

BookInit ==
  /\ env \in BookEnvs
  /\ today = 1
  /\ state_file = NoDaily
  /\ pc = "idle"
  /\ call = NoCall
  /\ frame = NoFrame
  /\ result = NoResult
  /\ calls = <<>>
  /\ orders = <<>>
  /\ alerts = <<>>
  /\ twap = NoTwap
  /\ loss_day = None
  /\ ApartIdle
  /\ book \in BookStart

book_buy ==
  /\ pc = "idle"
  /\ \E args \in BookBuyArgs : BuyStart("live_buy", "buy", args)

book_sell ==
  /\ pc = "idle"
  /\ \E args \in BookSellArgs : SellStart("live_sell", "sell", args)

book_twap_order ==
  /\ pc = "idle"
  /\ \E c \in BookTwapCalls : TwapStart(c)
  /\ UNCHANGED <<env, today, state_file, frame, calls, orders, alerts, loss_day, others>>

BookNext ==
  \/ book_buy
  \/ book_sell
  \/ book_twap_order
  \/ twap_next
  \/ buy_get_account
  \/ buy_list_positions
  \/ buy_submit
  \/ sell_list_positions
  \/ sell_submit
  \/ Respond

BookSpec == BookInit /\ [][BookNext]_vars

\* ------------------------------------------------ the trading session
\* LiveAgent.run_trading_session: up to max_steps rounds with the model,
\* then the run summary and, for a run that did not complete, the alert.
MaxSteps == 2
MaxSessions == 2

\* what one round with the model comes to: the model says it has finished,
\* it returns tool results, or something in the round raises
StepOutcomes == {"finish", "tools", "raise"}

\* notify_alert("live_run_error", details) as called at line 79
live_run_error(details, delivered) ==
  <<[event |-> "live_run_error", type |-> "", symbol |-> "",
     details |-> details, a |-> None, b |-> None]>>
  \o (IF delivered THEN <<>>
      ELSE <<[event |-> "alert_delivery_error", type |-> "", symbol |-> "",
              details |-> "", a |-> None, b |-> None]>>)

\* record_run_summary, live_monitor.py lines 21-54: the entry appended to
\* live_runs.jsonl; a broker failure is written into the entry
RunEntry(status, details, account_ok, positions_ok) ==
  [status |-> status, details |-> details, account |-> account_ok, positions |-> positions_ok]

SessionInit ==
  /\ ToolsIdle
  /\ OthersIdle
  /\ today = 1
  /\ state_file = NoDaily

session_rest ==
  <<env, today, state_file, pc, call, frame, result, calls, orders, twap, loss_day,
    callers, returned, lock_file, now, sched, book>>

\* lines 36-52: a session begins
run_trading_session ==
  /\ session.pc \in {"idle", "returned", "raised"}
  /\ session.started < MaxSessions
  /\ \E max_steps \in 1..MaxSteps :
       session' = [session EXCEPT !.pc = "loop", !.max_steps = max_steps,
                                  !.current_step = 0, !.status = "completed",
                                  !.error_details = "", !.raised = "",
                                  !.log = <<"user">>, !.started = @ + 1]
  /\ UNCHANGED <<alerts, session_rest>>

\* lines 53-76: one round of the loop
session_step ==
  /\ session.pc = "loop"
  /\ session.current_step < session.max_steps
  /\ \E outcome \in StepOutcomes :
       session' =
         IF outcome = "finish"
           THEN [session EXCEPT !.current_step = @ + 1, !.pc = "summary",
                                !.log = Append(@, "assistant")]
         ELSE IF outcome = "tools"
           THEN [session EXCEPT !.current_step = @ + 1,
                                !.pc = IF session.current_step + 1 < session.max_steps
                                         THEN "loop" ELSE "summary",
                                !.log = @ \o <<"assistant", "user">>]
         ELSE [session EXCEPT !.current_step = @ + 1, !.status = "error",
                              !.error_details = "exc", !.log = Append(@, "Error"),
                              !.pc = "raised", !.raised = "Exception"]
  /\ UNCHANGED <<alerts, session_rest>>

\* lines 77-79: the run summary is recorded and a run that did not complete
\* is alerted
session_summary ==
  /\ session.pc = "summary"
  /\ \E account_ok \in BOOLEAN, positions_ok \in BOOLEAN,
        write_ok \in BOOLEAN, delivered \in BOOLEAN :
       IF ~write_ok
         THEN /\ account_ok /\ positions_ok /\ delivered
              /\ session' = [session EXCEPT !.pc = "raised", !.raised = "OSError"]
              /\ UNCHANGED alerts
         ELSE /\ session' = [session EXCEPT
                   !.pc = "returned",
                   !.runs = Append(@, RunEntry(session.status, session.error_details,
                                               account_ok, positions_ok))]
              /\ IF session.status # "completed"
                   THEN alerts' = alerts \o live_run_error(session.error_details, delivered)
                   ELSE delivered /\ UNCHANGED alerts
  /\ UNCHANGED session_rest

SessionNext ==
  \/ run_trading_session
  \/ session_step
  \/ session_summary

SessionSpec == SessionInit /\ [][SessionNext]_vars

\* ================================================================ claims
Range(seq) == {seq[i] : i \in 1..Len(seq)}

\* the alerts of the running call that report a risk rejection
RiskAlerts == SelectSeq(alerts, LAMBDA e : e.event = "risk_limit_triggered")

\* a configured limit, None when it is not configured
Limit(key) ==
  IF env[key] \in {Unset, Empty, Garbage} THEN None ELSE env[key]

SizeMissing == "Either qty or notional must be provided"
PriceRequired == "estimated_price is required when qty is used with notional limits"
DailyLossMsg == "Daily loss {a:.2%} exceeds MAX_DAILY_LOSS_PCT {b:.2%}"
OrderNotionalMsg == "Order notional {a} exceeds MAX_ORDER_NOTIONAL_USD {b}"
OrderPctMsg == "Order notional {a} exceeds MAX_ORDER_PCT_EQUITY {b}"
BuyingPowerMsg == "Insufficient buying power"
PositionNotionalMsg == "Position notional {a} exceeds MAX_POSITION_NOTIONAL_USD {b}"
PositionPctMsg == "Position notional {a} exceeds MAX_POSITION_PCT_EQUITY {b}"
ShortMsg == "Shorting disabled or insufficient position"

\* the running call is a buy / a sell that has got past the side check
IsBuy == call.tool # "" /\ call.side = "buy"
IsSell == call.tool # "" /\ call.side = "sell"

\* the limits, stated on the figures one buy has fetched
DailyLossHit(equity, equity_start) ==
  /\ Limit("MAX_DAILY_LOSS_PCT") # None
  /\ equity # None
  /\ equity_start # None /\ equity_start > 0
  /\ Max(0, (equity_start - equity) * 100) >= Limit("MAX_DAILY_LOSS_PCT") * equity_start
OverOrderNotional(n) ==
  Limit("MAX_ORDER_NOTIONAL_USD") # None /\ n > Limit("MAX_ORDER_NOTIONAL_USD")
OverOrderPct(n, equity) ==
  /\ Limit("MAX_ORDER_PCT_EQUITY") # None
  /\ equity # None /\ equity # 0
  /\ n * 100 > equity * Limit("MAX_ORDER_PCT_EQUITY")
OverBuyingPower(n, buying_power) == buying_power # None /\ n > buying_power
OverPositionNotional(current, n) ==
  Limit("MAX_POSITION_NOTIONAL_USD") # None /\ current + n > Limit("MAX_POSITION_NOTIONAL_USD")
OverPositionPct(current, n, equity) ==
  /\ Limit("MAX_POSITION_PCT_EQUITY") # None
  /\ equity # None /\ equity # 0
  /\ (current + n) * 100 > equity * Limit("MAX_POSITION_PCT_EQUITY")

\* C1: a live_buy, live_sell, live_place_order or live_twap_order call that
\* has neither qty nor notional ends at once with an error result: no broker
\* method is called, no order is placed and no alert is sent.
C1_NoSizeNoBrokerCall ==
  (call.tool # "" /\ call.qty = None /\ call.notional = None)
    => /\ pc = "done"
       /\ result.kind = "error"
       /\ calls = <<>>
       /\ orders = <<>>
       /\ alerts = <<>>

C1_Witness ==
  /\ pc = "done"
  /\ call.tool = "live_twap_order"
  /\ call.side = "buy"
  /\ call.qty = None /\ call.notional = None
  /\ result.error = SizeMissing

\* C2: live_buy calls submit_order only after every check has passed on the
\* figures fetched in that same call: the account was fetched once, first;
\* no check has rejected (and so no alert was sent); with a known order
\* notional the positions were fetched before the order went out.
C2_SubmitOnlyAfterChecks ==
  (IsBuy /\ "submit_order" \in Range(calls))
    => LET n == frame.order_notional
       IN /\ calls[1] = "get_account"
          /\ calls[Len(calls)] = "submit_order"
          /\ Len(SelectSeq(calls, LAMBDA c : c = "submit_order")) = 1
          /\ Len(SelectSeq(calls, LAMBDA c : c = "get_account")) = 1
          /\ alerts = <<>>
          /\ frame.loss_checked
          /\ ~(n = None /\ \E k \in {"MAX_ORDER_NOTIONAL_USD", "MAX_ORDER_PCT_EQUITY",
                                     "MAX_POSITION_NOTIONAL_USD", "MAX_POSITION_PCT_EQUITY"} :
                              Limit(k) # None)
          /\ ~DailyLossHit(frame.equity, frame.equity_start)
          /\ n # None =>
               /\ ~OverOrderNotional(n)
               /\ ~OverOrderPct(n, frame.equity)
               /\ ~OverBuyingPower(n, frame.buying_power)
               /\ calls = <<"get_account", "list_positions", "submit_order">>
               /\ frame.current_notional # None
               /\ ~OverPositionNotional(frame.current_notional, n)
               /\ ~OverPositionPct(frame.current_notional, n, frame.equity)

C2_Witness ==
  /\ pc = "done"
  /\ IsBuy
  /\ result.kind = "order"
  /\ \A k \in {"MAX_ORDER_NOTIONAL_USD", "MAX_ORDER_PCT_EQUITY", "MAX_POSITION_NOTIONAL_USD",
               "MAX_POSITION_PCT_EQUITY", "MAX_DAILY_LOSS_PCT"} : Limit(k) # None
  /\ frame.current_notional > 0
  /\ calls = <<"get_account", "list_positions", "submit_order">>

\* the results with which the limit evaluator rejects a buy
EvaluatorRejections ==
  {PriceRequired, DailyLossMsg, OrderNotionalMsg, OrderPctMsg, BuyingPowerMsg,
   PositionNotionalMsg, PositionPctMsg}

\* C3 (as claimed): every buy the limit evaluator rejects, the rejection for
\* an unknown order notional included, has sent exactly one
\* "risk_limit_triggered" alert, carrying type, symbol and details, when the
\* error result is returned.
C3_EveryRejectionAlerts ==
  (pc = "done" /\ IsBuy /\ result.kind = "error" /\ result.error \in EvaluatorRejections)
    => /\ Len(RiskAlerts) = 1
       /\ RiskAlerts[1].type \in {"daily_loss", "order_notional", "buying_power",
                                  "position_limit", "unknown_notional"}
       /\ RiskAlerts[1].symbol = Symbol
       /\ RiskAlerts[1].details = result.error

\* C4 (as claimed): every sell the short-sale guard rejects has sent a
\* "risk_limit_triggered" alert.
C4_ShortGuardAlerts ==
  (pc = "done" /\ IsSell /\ result.kind = "error" /\ result.error = ShortMsg)
    => Len(RiskAlerts) >= 1

\* C5 (as claimed): once the daily-loss check has rejected a buy on a day,
\* it rejects every later buy it evaluates on that day with a known equity,
\* whatever that equity is.
C5_DailyLossLatches ==
  (IsBuy /\ frame.loss_checked /\ frame.tripped_before
     /\ frame.equity # None /\ frame.equity_start # None /\ frame.equity_start > 0)
    => frame.loss_error # NoError

\* C6: with MAX_DAILY_LOSS_PCT = p, a known equity and a positive stored
\* equity_start, the daily-loss check of a buy rejects exactly when
\* max(0, (equity_start - equity) / equity_start) >= p, the boundary
\* included; a rejection ends the buy with the daily-loss message.  (The
\* check is reached by every buy that has a size and is not stopped for an
\* unknown notional.)
C6_DailyLossBoundary ==
  (IsBuy /\ frame.loss_checked /\ Limit("MAX_DAILY_LOSS_PCT") # None /\ frame.equity # None)
    => /\ state_file.equity_start = frame.equity_start
       /\ frame.equity_start > 0 =>
            LET hit == Max(0, (frame.equity_start - frame.equity) * 100)
                         >= Limit("MAX_DAILY_LOSS_PCT") * frame.equity_start
            IN /\ hit <=> (pc = "done" /\ result.kind = "error" /\ result.error = DailyLossMsg)
               /\ hit => /\ "submit_order" \notin Range(calls)
                         /\ result.b = Limit("MAX_DAILY_LOSS_PCT") * 100
               /\ (frame.equity_start = 100 /\ Limit("MAX_DAILY_LOSS_PCT") = 5)
                    => /\ frame.equity = 95 => result.error = DailyLossMsg
                       /\ frame.equity = 96 => result.error # DailyLossMsg

C6_Witness ==
  /\ pc = "done"
  /\ IsBuy
  /\ Limit("MAX_DAILY_LOSS_PCT") = 5
  /\ frame.equity_start = 100
  /\ frame.equity = 95
  /\ result.error = DailyLossMsg
  /\ result.a = 500

\* the first limit a buy violates, in the order daily loss, per-order
\* notional, per-order percent of equity, buying power; "" when none
FirstViolated ==
  LET n == frame.order_notional
  IN IF DailyLossHit(frame.equity, frame.equity_start) THEN "daily_loss"
     ELSE IF n # None /\ OverOrderNotional(n) THEN "order_notional"
     ELSE IF n # None /\ OverOrderPct(n, frame.equity) THEN "order_pct"
     ELSE IF n # None /\ OverBuyingPower(n, frame.buying_power) THEN "buying_power"
     ELSE ""

\* C7: the checks of a buy run in the order daily loss, per-order notional,
\* per-order percent of equity, buying power, position limit.  The first
\* one that fails gives the result and the alert type, also when later
\* limits are violated too, and nothing after it is evaluated: the
\* positions are fetched only when the four checks before have passed.
C7_FirstFailureWins ==
  (IsBuy /\ frame.loss_checked)
    => /\ FirstViolated = "daily_loss" =>
            /\ pc = "done" /\ result.error = DailyLossMsg
            /\ Len(RiskAlerts) = 1 /\ RiskAlerts[1].type = "daily_loss"
            /\ frame.limit_error = NoError
       /\ FirstViolated = "order_notional" =>
            /\ pc = "done" /\ result.error = OrderNotionalMsg
            /\ Len(RiskAlerts) = 1 /\ RiskAlerts[1].type = "order_notional"
            /\ RiskAlerts[1].details = OrderNotionalMsg
       /\ FirstViolated = "order_pct" =>
            /\ pc = "done" /\ result.error = OrderPctMsg
            /\ Len(RiskAlerts) = 1 /\ RiskAlerts[1].type = "order_notional"
            /\ RiskAlerts[1].details = OrderPctMsg
       /\ FirstViolated = "buying_power" =>
            /\ pc = "done" /\ result.error = BuyingPowerMsg
            /\ Len(RiskAlerts) = 1 /\ RiskAlerts[1].type = "buying_power"
       /\ FirstViolated # "" =>
            /\ calls = <<"get_account">>
            /\ frame.current_notional = None
            /\ frame.position_error = NoError
       /\ (FirstViolated = "" /\ frame.current_notional # None) =>
            LET n == frame.order_notional
                cur == frame.current_notional
            IN /\ OverPositionNotional(cur, n) =>
                    /\ pc = "done" /\ result.error = PositionNotionalMsg
                    /\ Len(RiskAlerts) = 1 /\ RiskAlerts[1].type = "position_limit"
               /\ (~OverPositionNotional(cur, n) /\ OverPositionPct(cur, n, frame.equity)) =>
                    /\ pc = "done" /\ result.error = PositionPctMsg
                    /\ Len(RiskAlerts) = 1 /\ RiskAlerts[1].type = "position_limit"
               /\ (OverPositionNotional(cur, n) \/ OverPositionPct(cur, n, frame.equity)) =>
                    calls = <<"get_account", "list_positions">>
               /\ (~OverPositionNotional(cur, n) /\ ~OverPositionPct(cur, n, frame.equity)) =>
                    pc \in {"buy_submit", "done"} /\ alerts = <<>>

\* several limits violated at once: daily loss, per-order notional, percent
\* of equity and buying power
C7_Witness ==
  /\ pc = "done"
  /\ IsBuy
  /\ DailyLossHit(frame.equity, frame.equity_start)
  /\ OverOrderNotional(frame.order_notional)
  /\ OverOrderPct(frame.order_notional, frame.equity)
  /\ OverBuyingPower(frame.order_notional, frame.buying_power)
  /\ Limit("MAX_POSITION_NOTIONAL_USD") # None
  /\ result.error = DailyLossMsg
  /\ calls = <<"get_account">>

\* C8: the daily-loss check never stops a sell.  A sell never fetches the
\* account nor consults the day's baseline, and a sell that has a size and
\* passes the short-sale guard (or is not subject to it) goes to
\* submit_order, also on a day on which buys are rejected for daily loss.
C8_SellIgnoresDailyLoss ==
  IsSell
    => /\ ~frame.loss_checked
       /\ "get_account" \notin Range(calls)
       /\ result.error # DailyLossMsg
       /\ (pc = "done" /\ (call.qty # None \/ call.notional # None)
             /\ \/ "list_positions" \notin Range(calls)
                \/ (frame.current_qty # None /\ call.qty <= frame.current_qty))
            => /\ calls # <<>>
               /\ calls[Len(calls)] = "submit_order"
               /\ (result.kind = "order" \/ result.error \in {"ValueError", "RuntimeError"})

C8_Witness ==
  /\ pc = "done"
  /\ IsSell
  /\ loss_day = today
  /\ state_file.date = today
  /\ Limit("MAX_DAILY_LOSS_PCT") # None
  /\ result.kind = "order"

\* one of the four notional limits is configured
AnyLimitConfigured ==
  \E k \in {"MAX_ORDER_NOTIONAL_USD", "MAX_ORDER_PCT_EQUITY",
            "MAX_POSITION_NOTIONAL_USD", "MAX_POSITION_PCT_EQUITY"} : Limit(k) # None

\* C9: with one of the four notional limits configured, a buy given qty but
\* neither estimated_price nor notional is never submitted: once the account
\* is fetched the buy ends with the error result that asks for
\* estimated_price, and submit_order is not called.
C9_FailClosed ==
  (IsBuy /\ AnyLimitConfigured
     /\ call.qty # None /\ call.estimated_price = None /\ call.notional = None)
    => /\ "submit_order" \notin Range(calls)
       /\ orders = <<>>
       /\ pc \in {"buy_get_account", "done"}
       /\ (pc = "done" /\ result.kind # "raised")
            => /\ result.kind = "error"
               /\ result.error = PriceRequired
               /\ calls = <<"get_account">>

C9_Witness ==
  /\ pc = "done"
  /\ IsBuy
  /\ call.qty # None /\ call.estimated_price = None /\ call.notional = None
  /\ Limit("MAX_POSITION_PCT_EQUITY") # None
  /\ Limit("MAX_ORDER_NOTIONAL_USD") = None
  /\ result.error = PriceRequired

\* C10: with MAX_ORDER_NOTIONAL_USD = M, a buy whose order notional is
\* greater than M is never submitted and is rejected with the message that
\* cites M (unless the daily-loss check, which runs before, has rejected it
\* already); a buy whose order notional equals M is not rejected by this
\* check.
C10_OrderNotionalBoundary ==
  (IsBuy /\ frame.loss_checked /\ Limit("MAX_ORDER_NOTIONAL_USD") # None
     /\ frame.order_notional # None)
    => LET M == Limit("MAX_ORDER_NOTIONAL_USD")
           n == frame.order_notional
       IN /\ n > M =>
               /\ pc = "done"
               /\ result.kind = "error"
               /\ "submit_order" \notin Range(calls)
               /\ result.error \in {DailyLossMsg, OrderNotionalMsg}
               /\ frame.loss_error = NoError =>
                    /\ result.error = OrderNotionalMsg
                    /\ result.a = n
                    /\ result.b = M
          /\ n <= M => result.error # OrderNotionalMsg
          /\ result.error = OrderNotionalMsg => result.b = M

C10_Witness ==
  /\ pc = "done"
  /\ IsBuy
  /\ frame.order_notional = 12
  /\ result.error = OrderNotionalMsg
  /\ result.a = 12
  /\ result.b = 10

\* a buy of exactly M that has passed the per-order check
C10_WitnessAtLimit ==
  /\ IsBuy
  /\ Limit("MAX_ORDER_NOTIONAL_USD") = 10
  /\ frame.order_notional = 10
  /\ result.kind = "order"

\* C11 (as claimed): with MAX_ORDER_PCT_EQUITY = p, a buy whose equity is
\* known (any number the snapshot carries, 0 included) and whose order
\* notional is greater than equity * p is rejected and never submitted.
C11_OrderPctRejects ==
  (IsBuy /\ frame.loss_checked /\ Limit("MAX_ORDER_PCT_EQUITY") # None
     /\ frame.equity # None /\ frame.order_notional # None
     /\ frame.order_notional * 100 > frame.equity * Limit("MAX_ORDER_PCT_EQUITY"))
    => /\ "submit_order" \notin Range(calls)
       /\ orders = <<>>
       /\ pc = "done" => result.kind \in {"error", "raised"}

\* the same with a non-zero equity, which is what the code enforces
C11_NonZeroEquity ==
  (IsBuy /\ frame.loss_checked /\ Limit("MAX_ORDER_PCT_EQUITY") # None
     /\ frame.equity # None /\ frame.equity # 0 /\ frame.order_notional # None
     /\ frame.order_notional * 100 > frame.equity * Limit("MAX_ORDER_PCT_EQUITY"))
    => /\ "submit_order" \notin Range(calls)
       /\ pc = "done" /\ result.kind = "error"
       /\ result.error \in {DailyLossMsg, OrderNotionalMsg, OrderPctMsg}

\* C12: a buy whose order notional is greater than the buying power of the
\* snapshot is rejected and not submitted (with "Insufficient buying power"
\* and the buying power, when no earlier check rejects it).  An equity or a
\* buying power that is absent or not a number reads as unknown without
\* failing the call: the checks that need the figure are skipped (daily loss
\* and the two percent limits for equity, the buying-power check for buying
\* power) and the other checks give their verdicts as usual.
C12_BuyingPowerAndMissingFigures ==
  (IsBuy /\ frame.loss_checked)
    => LET n == frame.order_notional
           raw_equity == frame.account[1]
           raw_buying_power == frame.account[2]
       IN /\ result.kind = "raised" => result.error = "list_positions"
          /\ (n # None /\ frame.buying_power # None /\ n > frame.buying_power) =>
               /\ pc = "done" /\ result.kind = "error"
               /\ "submit_order" \notin Range(calls)
               /\ FirstViolated = "buying_power" =>
                    /\ result.error = BuyingPowerMsg
                    /\ result.b = frame.buying_power
          /\ raw_equity \in {None, Garbage} =>
               /\ frame.equity = None
               /\ frame.equity_start = None
               /\ result.error \notin {DailyLossMsg, OrderPctMsg, PositionPctMsg}
               /\ (n # None /\ OverOrderNotional(n)) => result.error = OrderNotionalMsg
               /\ (n # None /\ ~OverOrderNotional(n) /\ OverBuyingPower(n, frame.buying_power))
                    => result.error = BuyingPowerMsg
               /\ (n # None /\ ~OverOrderNotional(n) /\ ~OverBuyingPower(n, frame.buying_power))
                    => /\ pc # "buy_get_account"
                       /\ frame.current_notional # None =>
                            (OverPositionNotional(frame.current_notional, n)
                               <=> result.error = PositionNotionalMsg)
          /\ raw_buying_power \in {None, Garbage} =>
               /\ frame.buying_power = None
               /\ result.error # BuyingPowerMsg
               /\ FirstViolated = "daily_loss" => result.error = DailyLossMsg
               /\ FirstViolated = "order_notional" => result.error = OrderNotionalMsg
               /\ FirstViolated = "order_pct" => result.error = OrderPctMsg
               /\ (FirstViolated = "" /\ n # None) =>
                    /\ pc # "buy_get_account"
                    /\ frame.current_notional # None =>
                         ((OverPositionNotional(frame.current_notional, n)
                             \/ OverPositionPct(frame.current_notional, n, frame.equity))
                           <=> result.error \in {PositionNotionalMsg, PositionPctMsg})

\* the equity is not a number, the percent and daily-loss limits are set,
\* and the buy is rejected for buying power
C12_Witness ==
  /\ pc = "done"
  /\ IsBuy
  /\ frame.account = <<Garbage, 10>>
  /\ Limit("MAX_ORDER_PCT_EQUITY") # None
  /\ Limit("MAX_DAILY_LOSS_PCT") # None
  /\ frame.order_notional = 12
  /\ result.error = BuyingPowerMsg
  /\ result.b = 10
  /\ Len(RiskAlerts) = 1

\* the buying power is absent and the position limit still rejects
C12_WitnessNoBuyingPower ==
  /\ pc = "done"
  /\ IsBuy
  /\ frame.loss_checked
  /\ frame.account[2] = None
  /\ frame.order_notional = 12
  /\ result.error = PositionNotionalMsg

\* C13 (as claimed): a buy is rejected and never submitted when the current
\* position notional of the symbol (the absolute market value, 0 when the
\* symbol is not held) plus the order notional is greater than
\* MAX_POSITION_NOTIONAL_USD, or greater than equity *
\* MAX_POSITION_PCT_EQUITY for a known equity; a sum equal to the cap is not
\* rejected.
C13_PositionLimitRejects ==
  (IsBuy /\ frame.current_notional # None)
    => LET new_notional == frame.current_notional + frame.order_notional
           cap == Limit("MAX_POSITION_NOTIONAL_USD")
           pct == Limit("MAX_POSITION_PCT_EQUITY")
           over_cap == cap # None /\ new_notional > cap
           over_pct == pct # None /\ frame.equity # None
                         /\ new_notional * 100 > frame.equity * pct
       IN /\ (over_cap \/ over_pct) =>
               /\ "submit_order" \notin Range(calls)
               /\ orders = <<>>
               /\ pc = "done" => result.kind = "error"
          /\ (~over_cap /\ ~over_pct) =>
               result.error \notin {PositionNotionalMsg, PositionPctMsg}

\* the same with the percent cap applied to a non-zero equity only, which is
\* what the code enforces
C13_NonZeroEquity ==
  (IsBuy /\ frame.current_notional # None)
    => LET n == frame.order_notional
           over_cap == OverPositionNotional(frame.current_notional, n)
           over_pct == OverPositionPct(frame.current_notional, n, frame.equity)
       IN /\ (over_cap \/ over_pct) =>
               /\ "submit_order" \notin Range(calls)
               /\ pc = "done" /\ result.kind = "error"
               /\ result.error = IF over_cap THEN PositionNotionalMsg ELSE PositionPctMsg
               /\ result.a = frame.current_notional + n
          /\ (~over_cap /\ ~over_pct) =>
               result.error \notin {PositionNotionalMsg, PositionPctMsg}

\* held for 6, buying 10 more under a cap of 16: the order goes out
C13_AtCap ==
  /\ IsBuy
  /\ Limit("MAX_POSITION_NOTIONAL_USD") = 16
  /\ frame.current_notional = 6
  /\ frame.order_notional = 10
  /\ result.kind = "order"

\* ALLOW_SHORT reads as true
ShortAllowed == env.ALLOW_SHORT \in {"true", "True", "TRUE"}

\* the quantity held of a symbol in a position answer: that of the first
\* position listed for the symbol, 0 when there is none
Held(positions, symbol) ==
  IF positions.list /\ \E i \in 1..Len(positions.items) : positions.items[i].symbol = symbol
    THEN LET i == CHOOSE i \in 1..Len(positions.items) :
                    /\ positions.items[i].symbol = symbol
                    /\ \A j \in 1..(i - 1) : positions.items[j].symbol # symbol
         IN positions.items[i].qty
    ELSE 0

\* C14: the short-sale guard rejects a sell exactly when ALLOW_SHORT is not
\* true, the sell gives qty, and qty is greater than the quantity held (0
\* when the symbol is not held).  The rejection reports the quantity held and
\* no order goes out; a sell of exactly the quantity held goes to
\* submit_order; a sell without qty (notional only), or with ALLOW_SHORT
\* true, never fetches the positions.
C14_ShortGuard ==
  /\ \A p \in PositionAnswers : p.ok => _get_position_qty(p, Symbol) = Held(p, Symbol)
  /\ (IsSell /\ (call.qty # None \/ call.notional # None))
       => LET guarded == ~ShortAllowed /\ call.qty # None
          IN /\ pc = "sell_list_positions" => guarded
             /\ pc = "sell_submit" => (~guarded \/ call.qty <= frame.current_qty)
             /\ (pc = "done" /\ result.kind # "raised") =>
                  /\ "list_positions" \in Range(calls) <=> guarded
                  /\ result.error = ShortMsg <=> (guarded /\ call.qty > frame.current_qty)
                  /\ result.error = ShortMsg =>
                       /\ result.kind = "error"
                       /\ result.b = frame.current_qty
                       /\ calls = <<"list_positions">>
                       /\ orders = <<>>
                  /\ (guarded /\ call.qty <= frame.current_qty) =>
                       calls = <<"list_positions", "submit_order">>
                  /\ ~guarded => calls = <<"submit_order">>

\* 4 held, 4 sold with shorting disabled: the order is placed
C14_Witness ==
  /\ pc = "done"
  /\ IsSell
  /\ ~ShortAllowed
  /\ call.qty = 4
  /\ frame.current_qty = 4
  /\ result.kind = "order"
  /\ orders # <<>>

\* 2 held, 4 sold with shorting disabled: rejected, reporting 2
C14_WitnessRejected ==
  /\ pc = "done"
  /\ IsSell
  /\ env.ALLOW_SHORT = "yes"
  /\ call.qty = 4
  /\ result.error = ShortMsg
  /\ result.b = 2

\* a notional-only sell with shorting disabled goes straight to the broker
C14_WitnessNotionalOnly ==
  /\ pc = "done"
  /\ IsSell
  /\ ~ShortAllowed
  /\ call.qty = None
  /\ calls = <<"submit_order">>
  /\ result.kind = "order"

SideMsg == "side must be buy or sell"

\* the side, as the caller wrote it, is buy or sell in some letter case
ValidSide(s) == s \in {"buy", "BUY", "Buy", "sell", "SELL", "Sell"}

\* C15: live_place_order and live_twap_order answer a side that is neither
\* buy nor sell, whatever its letter case, with the request error "side must
\* be buy or sell": before the size is looked at, without any broker call,
\* order, alert or slice.  A side that is buy or sell in any letter case
\* never gets that error.
C15_UnknownSide ==
  (call.tool \in {"live_place_order", "live_twap_order"})
    => /\ ~ValidSide(call.side_arg) =>
            /\ pc = "done"
            /\ result = ErrorResult(Error(SideMsg, None, None))
            /\ calls = <<>>
            /\ orders = <<>>
            /\ alerts = <<>>
            /\ twap = NoTwap
       /\ ValidSide(call.side_arg) =>
            /\ result.error # SideMsg
            /\ call.side \in {"buy", "sell"}

\* an unknown side and no size: the side is what the error is about
C15_Witness ==
  /\ pc = "done"
  /\ call.tool = "live_twap_order"
  /\ call.side_arg = ""
  /\ call.qty = None /\ call.notional = None
  /\ result.error = SideMsg

C15_WitnessPlaceOrder ==
  /\ pc = "done"
  /\ call.tool = "live_place_order"
  /\ call.side_arg = "hold"
  /\ call.qty = None /\ call.notional = None
  /\ result.error = SideMsg

C15_WitnessUpperCase ==
  /\ pc = "done"
  /\ call.tool = "live_place_order"
  /\ call.side_arg = "BUY"
  /\ result.kind = "order"

\* C16 (as claimed): no failure of a broker request made by live_buy or
\* live_sell (get_account, list_positions, submit_order) leaves the tool as
\* an exception: the call always ends with an order or an error result.
C16_NoBrokerFailurePropagates ==
  (pc = "done" /\ (IsBuy \/ IsSell)) => result.kind \in {"order", "error"}

\* what the code does catch: a failure of submit_order
C16_SubmitFailureCaught ==
  (pc = "done" /\ (IsBuy \/ IsSell))
    => /\ result.kind = "raised" =>
            /\ "submit_order" \notin Range(calls)
            /\ result.error \in {"get_account", "list_positions", "OSError"}
            /\ result.error # "OSError" => result.error = calls[Len(calls)]
       /\ "submit_order" \in Range(calls) => result.kind \in {"order", "error"}

\* C17 (as claimed): a live_twap_order that has made its plan of N slices
\* ends with {slices: N, results: one outcome per slice}, whatever happens
\* to the single slices.
C17_TwapRunsToCompletion ==
  (pc = "done" /\ call.tool = "live_twap_order" /\ twap.plan # <<>>)
    => /\ result.kind = "twap"
       /\ result.a = Len(twap.plan)
       /\ Len(twap.results) = Len(twap.plan)

\* what the code does: a slice that returns, be it an order, a rejection or
\* a caught broker error, is followed by the next one; a slice that raises
\* ends the whole call
C17_ReturningSlicesGoOn ==
  (call.tool = "live_twap_order" /\ twap.active)
    => /\ Len(twap.results) <= Len(twap.plan)
       /\ \A i \in 1..Len(twap.results) : twap.results[i].kind \in {"order", "error"}
       /\ (pc = "done" /\ result.kind # "raised") =>
            /\ result.kind = "twap"
            /\ result.a = Len(twap.plan)
            /\ Len(twap.results) = Len(twap.plan)
       /\ (pc = "done" /\ result.kind = "raised" /\ twap.plan # <<>>) =>
            /\ Len(twap.results) < Len(twap.plan)
            /\ result.error \in {"get_account", "list_positions", "OSError"}

\* a rejected first slice is followed by the second one
C17_RejectedSliceGoesOn ==
  /\ pc = "done"
  /\ result.kind = "twap"
  /\ Len(twap.results) = 2
  /\ twap.results[1].kind = "error"
  /\ twap.results[1].error = PositionNotionalMsg
  /\ twap.results[2].kind = "order"

Count(seq, x) == Len(SelectSeq(seq, LAMBDA c : c = x))

\* the buy slices of the running live_twap_order that have fetched the account
SlicesEvaluated ==
  Len(twap.results)
    + (IF pc \in {"buy_list_positions", "buy_submit"} THEN 1 ELSE 0)
    + (IF pc = "done" /\ result.kind = "raised" /\ result.error = "get_account" THEN 1 ELSE 0)
    + (IF pc = "done" /\ result.kind = "raised" /\ result.error = "list_positions" THEN 1 ELSE 0)
    + (IF pc = "done" /\ result.kind = "raised" /\ result.error = "OSError" THEN 1 ELSE 0)

\* C18: the slices of a TWAP buy are routed one after another and each one
\* is evaluated on an account snapshot of its own: the snapshot (and the
\* positions, when they are fetched) is requested after the slice before has
\* returned, so between two submit_order calls there is a get_account call,
\* and there are as many get_account calls as slices evaluated.
C18_FreshSnapshotPerSlice ==
  (call.tool = "live_twap_order" /\ twap.active /\ twap.side = "buy")
    => /\ Count(calls, "get_account") = SlicesEvaluated
       /\ Count(calls, "submit_order") <= Len(twap.results) + 1
       /\ \A i \in 1..Len(calls) :
            calls[i] \in {"list_positions", "submit_order"} =>
              \E j \in 1..(i - 1) :
                 /\ calls[j] = "get_account"
                 /\ \A m \in (j + 1)..(i - 1) : calls[m] \notin {"get_account", "submit_order"}
       /\ \A i \in 1..Len(calls) :
            (calls[i] = "get_account" /\ i > 1) =>
              calls[i - 1] \in {"get_account", "list_positions", "submit_order"}
       /\ (pc \in {"buy_list_positions", "buy_submit"}) =>
            \E j \in 1..Len(calls) :
               /\ calls[j] = "get_account"
               /\ \A m \in (j + 1)..Len(calls) : calls[m] = "list_positions"
               /\ Count(SubSeq(calls, 1, j - 1), "get_account") = Len(twap.results)

\* two slices bought, each on its own snapshot and positions
C18_Witness ==
  /\ pc = "done"
  /\ call.tool = "live_twap_order"
  /\ twap.side = "buy"
  /\ result.kind = "twap"
  /\ Len(twap.results) = 2
  /\ calls = <<"get_account", "list_positions", "submit_order",
               "get_account", "list_positions", "submit_order">>
  /\ Len(orders) = 2

RECURSIVE SumSeq(_)
SumSeq(seq) == IF seq = <<>> THEN 0 ELSE seq[1] + SumSeq(Tail(seq))

\* the total of the order a plan was made for
PlanTotal == IF twap.qty # None THEN twap.qty ELSE twap.notional

\* C19 (as claimed): the slices of every plan add up to the total of the
\* order: the quantities when qty is given (equity and crypto), the
\* notionals when notional is given, for every total and every slice
\* count >= 1.
C19_SplitPreservesTotal ==
  (pc = "twap_planned" /\ twap.slice_count >= 1) => SumSeq(twap.plan) = PlanTotal

\* what the code keeps: the total of a whole number of units, of any
\* quantity in one slice, and of the totals it divides as real numbers
C19_WholeUnitsPreserved ==
  (pc = "twap_planned" /\ twap.slice_count >= 1)
    => /\ (twap.qty # None /\ twap.asset_class = "equity"
             /\ (twap.qty % 2 = 0 \/ twap.slice_count = 1))
            => SumSeq(twap.plan) = twap.qty
       /\ (twap.qty # None /\ twap.asset_class = "equity")
            => SumSeq(twap.plan) \in {twap.qty, FromInt(ToInt(twap.qty))}
       /\ (twap.qty = None \/ twap.asset_class # "equity")
            => SumSeq(twap.plan) = PlanTotal

\* C20: the plan of an equity order of a whole number of units, qty >=
\* slices > 1, has exactly `slices` slices; each is floor(qty / slices) or
\* one more, and the larger ones are exactly the first qty mod slices of
\* them (10 units in 3 slices: 4, 3, 3).
C20_EquitySplitShape ==
  (pc = "twap_planned" /\ twap.asset_class = "equity" /\ twap.qty # None
     /\ twap.qty % 2 = 0 /\ twap.slice_count > 1 /\ twap.qty \div 2 >= twap.slice_count)
    => LET units == twap.qty \div 2
           n == twap.slice_count
       IN /\ Len(twap.plan) = n
          /\ \A i \in 1..n :
               twap.plan[i] = 2 * ((units \div n) + (IF i <= units % n THEN 1 ELSE 0))
          /\ (units = 10 /\ n = 3) => twap.plan = <<8, 6, 6>>

C20_Witness ==
  /\ pc = "twap_planned"
  /\ twap.asset_class = "equity"
  /\ twap.qty = 20
  /\ twap.slice_count = 3
  /\ twap.plan = <<8, 6, 6>>

\* C21 (as claimed): the plan of an equity order whose quantity is smaller
\* than the slice count (base 0) is a single slice that carries the whole
\* quantity (2 units in 5 slices: [2]), and no plan has a slice of quantity
\* zero.
C21_SmallQtyOneSlice ==
  (pc = "twap_planned" /\ twap.asset_class = "equity" /\ twap.qty # None /\ twap.qty > 0
     /\ twap.slice_count > 1)
    => /\ twap.qty < 2 * twap.slice_count =>
            /\ Len(twap.plan) = 1
            /\ twap.plan[1] = twap.qty
       /\ \A i \in 1..Len(twap.plan) : twap.plan[i] > 0

\* what the code does: with base 0 the single slice carries int(qty), which
\* is the whole quantity for a whole number of units and 0 below one unit
C21_SmallQtyTruncated ==
  (pc = "twap_planned" /\ twap.asset_class = "equity" /\ twap.qty # None
     /\ twap.slice_count > 1)
    => /\ twap.qty < 2 * twap.slice_count => twap.plan = <<FromInt(ToInt(twap.qty))>>
       /\ (twap.qty % 2 = 0 /\ 0 < twap.qty /\ twap.qty < 2 * twap.slice_count) =>
            twap.plan = <<twap.qty>>
       /\ twap.qty >= 2 => \A i \in 1..Len(twap.plan) : twap.plan[i] > 0
       /\ (twap.qty = 4 /\ twap.slice_count = 5) => twap.plan = <<4>>

\* C22 (as claimed): a TWAP order of N slices with a positive interval
\* suspends N - 1 times, between consecutive slices, and not after the last
\* slice.
C22_SleepsBetweenSlices ==
  (pc = "done" /\ call.tool = "live_twap_order" /\ result.kind = "twap" /\ twap.delay > 0)
    => Len(twap.sleeps) = Len(twap.plan) - 1

\* what the code does: it suspends for the interval after every slice, the
\* last one included, and not at all when the interval is 0
C22_SleepsAfterEverySlice ==
  (call.tool = "live_twap_order" /\ twap.active)
    => /\ twap.delay > 0 =>
            /\ Len(twap.sleeps) = Len(twap.results)
            /\ \A i \in 1..Len(twap.sleeps) : twap.sleeps[i] = twap.delay
       /\ twap.delay = 0 => twap.sleeps = <<>>

\* the value of an integer setting: the default when it is unset, empty or
\* not a number
IntSetting(key, default) ==
  IF env[key] \in {Unset, Empty, Garbage} THEN default ELSE env[key]

\* C23 (as claimed): live_twap_order works with the slices and the
\* interval_seconds of the caller whenever they are passed (slices >= 1,
\* interval_seconds >= 0, 0 included), and with TWAP_SLICES (default 4) and
\* TWAP_INTERVAL_SECONDS (default 15) only when the argument is not passed.
C23_ArgumentsOverrideDefaults ==
  (call.tool = "live_twap_order" /\ twap.active)
    => /\ (twap.slices # None /\ twap.slices >= 1) => twap.slice_count = twap.slices
       /\ twap.slices = None => twap.slice_count = IntSetting("TWAP_SLICES", 4)
       /\ twap.interval_seconds # None => twap.delay = twap.interval_seconds
       /\ twap.interval_seconds = None => twap.delay = IntSetting("TWAP_INTERVAL_SECONDS", 15)

\* what the code does: an argument of 0 counts as not passed
C23_ZeroCountsAsUnset ==
  (call.tool = "live_twap_order" /\ twap.active)
    => /\ twap.slice_count =
            IF twap.slices \notin {None, 0} THEN twap.slices ELSE IntSetting("TWAP_SLICES", 4)
       /\ twap.delay =
            IF twap.interval_seconds \notin {None, 0} THEN twap.interval_seconds
            ELSE IntSetting("TWAP_INTERVAL_SECONDS", 15)

\* the calls of get_or_init_day_state that have ended, in the order they ended
Ended == DOMAIN returned

\* the call found no day state of its own day: none at all, or one of another date
StaleFor(file, day) ==
  LET day_state == DayStateOf(load_state(file), day)
  IN day_state.raised = "" /\ day_state.stale

\* C24: the daily baseline is write-once per day. Of the calls made one after
\* the other on the same day, whatever their equity, every call that returns
\* returns what the first of them returned, and a call that finds a day state
\* dated today returns it and leaves the file unwritten.
C24_WriteOncePerDay ==
  /\ \A i \in Ended : \A j \in Ended :
       (i < j /\ returned[i].day = returned[j].day
          /\ returned[i].raised = "" /\ returned[j].raised = "")
        => returned[j].ret = returned[i].ret
  /\ \A i \in Ended :
       (returned[i].before.kind = "daily" /\ returned[i].before.date = returned[i].day)
        => /\ returned[i].raised = ""
           /\ ~returned[i].wrote
           /\ returned[i].after = returned[i].before
           /\ returned[i].ret = returned[i].before

\* a second call of the day, with another equity, has returned the baseline
\* that the first call of the day wrote
C24_Witness ==
  \E i \in Ended : \E j \in Ended :
    /\ i < j
    /\ returned[i].day = returned[j].day
    /\ returned[i].wrote
    /\ returned[j].raised = ""
    /\ returned[j].equity # returned[i].equity
    /\ returned[j].ret = DailyFile(returned[i].day, returned[i].equity)

\* C25: a call that finds no day state, or one of another date, and returns,
\* returns {date: today, equity_start: equity_now}, has written exactly that
\* to the file before it returned, and nothing of the previous baseline is
\* left in it.
C25_RotationReplacesBaseline ==
  \A i \in Ended :
    (StaleFor(returned[i].before, returned[i].day) /\ returned[i].raised = "")
      => /\ returned[i].ret = DailyFile(returned[i].day, returned[i].equity)
         /\ returned[i].wrote
         /\ returned[i].after = returned[i].ret

\* a baseline of the day before, with another equity, has been replaced
C25_Witness ==
  \E i \in Ended :
    /\ returned[i].before.kind = "daily"
    /\ returned[i].before.date \notin {None, returned[i].day}
    /\ returned[i].before.equity_start # returned[i].equity
    /\ returned[i].raised = ""
    /\ returned[i].after = DailyFile(returned[i].day, returned[i].equity)

\* C26 (as claimed): with the daily-loss limit configured, an order that has
\* been evaluated, a buy (with a known equity) or a sell, whatever its
\* outcome, leaves a baseline for today in the state file.
C26_FirstEvaluationCreatesBaseline ==
  (pc = "done" /\ (IsBuy \/ IsSell) /\ call.tool # "live_twap_order"
     /\ (call.qty # None \/ call.notional # None)
     /\ result.kind \in {"order", "error"}
     /\ (IsBuy => frame.equity # None)
     /\ Limit("MAX_DAILY_LOSS_PCT") # None)
    => /\ state_file.kind = "daily"
       /\ state_file.date = today

\* what the code does: the baseline is created by the first buy of the day
\* that reaches the daily-loss check with a known equity, from that equity;
\* a sell, and a buy stopped before the check, leave the state file alone
C26_BuyAtLossCheckCreatesBaseline ==
  (IsBuy /\ frame.loss_checked /\ frame.equity # None /\ Limit("MAX_DAILY_LOSS_PCT") # None)
    => /\ state_file = DailyFile(today, frame.equity_start)
       /\ frame.equity_start # None

\* C27 (as claimed): calls of the same day that overlap all return the same
\* baseline.
C27_RotationAtomic ==
  \A i \in Ended : \A j \in Ended :
    (returned[i].day = returned[j].day /\ returned[i].raised = "" /\ returned[j].raised = "")
      => returned[i].ret = returned[j].ret

\* what the code does: a call returns the day state it read, when that is
\* dated with the date the call took, and otherwise the baseline of its own
\* equity, which it writes over whatever another call wrote in between
C27_ReturnsOwnWriteOrFile ==
  \A i \in Ended :
    returned[i].raised = ""
      => IF StaleFor(returned[i].before, returned[i].day)
           THEN /\ returned[i].wrote
                /\ returned[i].ret = DailyFile(returned[i].day, returned[i].equity)
           ELSE /\ ~returned[i].wrote
                /\ returned[i].ret = returned[i].before

\* C28 (as claimed): whatever the file holds that is not a day state, the
\* call whose write succeeds returns a fresh baseline for today.
C28_CorruptTreatedAsEmpty ==
  \A i \in Ended :
    (returned[i].before.kind # "daily" /\ returned[i].raised # "OSError")
      => /\ returned[i].raised = ""
         /\ returned[i].ret = DailyFile(returned[i].day, returned[i].equity)

\* what the code does: a missing file, a file that is not JSON and an object
\* without "daily" are treated as empty; JSON that is not an object, and a
\* "daily" entry that is not an object, end the call with AttributeError and
\* leave the file as it was
C28_OnlyUnreadableTolerated ==
  \A i \in Ended :
    /\ (returned[i].before.kind \in {"missing", "not_json", "no_daily"}
          /\ returned[i].raised # "OSError")
        => /\ returned[i].raised = ""
           /\ returned[i].ret = DailyFile(returned[i].day, returned[i].equity)
    /\ (returned[i].before.kind \in {"not_object", "daily_not_object"})
        => /\ returned[i].raised = "AttributeError"
           /\ returned[i].after = returned[i].before

\* C29 (as claimed): a failure to read or write the state file never ends a
\* buy with an exception: the buy still ends in an order or an error result.
C29_PersistenceErrorNotFatal ==
  (pc = "done" /\ IsBuy /\ result.kind = "raised")
    => result.error \notin {"OSError", "AttributeError"}

\* what the code does when the write fails: the buy ends there, after the
\* account was fetched, with nothing checked, alerted or submitted and the
\* state file as it was
C29_WriteFailureAborts ==
  (pc = "done" /\ IsBuy /\ result.kind = "raised" /\ result.error = "OSError")
    => /\ calls[Len(calls)] = "get_account"
       /\ ~frame.loss_checked
       /\ Limit("MAX_DAILY_LOSS_PCT") # None
       /\ frame.equity # None
       /\ state_file.date # today

\* the scheduler processes that are in a session
InSession == {p \in Schedulers : sched[p].pc = "run"}

\* C30 (as claimed): no two scheduler processes are in a session at the
\* same time.
C30_AtMostOneSession == Cardinality(InSession) <= 1

\* what the code does: a process is in a session when the lock it looked at
\* was absent or at least ttl old at the time it looked, whatever has been
\* written to the lock since
C30_SessionAfterAbsentOrOldLock ==
  \A p \in InSession :
    sched[p].last = None \/ Expired(sched[p].now, sched[p].last)

\* a session that has outlived the ttl is joined by a second one
C30_SecondSessionAfterTtl ==
  \E p \in InSession : \E q \in InSession :
    /\ p # q
    /\ sched[q].last = sched[p].now
    /\ sched[q].now - sched[p].now >= lock_ttl

\* two processes that both looked before either wrote are both in a session
C30_SecondSessionByRace ==
  \E p \in InSession : \E q \in InSession :
    /\ p # q
    /\ sched[p].last = None /\ sched[q].last = None
    /\ sched[p].now = sched[q].now

\* the lock file holds a time stamp less than the ttl before the present
FreshLock ==
  /\ lock_file.exists
  /\ lock_file.text # Garbage
  /\ now - lock_file.text < lock_ttl

\* C31: a call of _acquire_lock that finds a lock stamped less than ttl ago
\* returns False and leaves the lock file as it is; a call that finds no
\* lock, or one that is at least ttl old, goes on to write, and what it
\* writes is the time it took when it was called, so that a lock nobody
\* releases refuses sessions for less than ttl after its stamp.
C31_AcquireLock ==
  [][\A p \in Schedulers :
       /\ (sched[p].pc = "tick" /\ sched'[p].pc # "tick" /\ sched'[p].now # None)
            => /\ sched'[p].now = now
               /\ IF FreshLock
                    THEN sched'[p].pc = "sleep" /\ lock_file' = lock_file
                    ELSE sched'[p].pc = "write"
       /\ (sched[p].pc = "write" /\ sched'[p].pc = "run")
            => lock_file' = LockOf(sched[p].now, p)]_vars

\* a process has taken over a lock stamped at least ttl before by a process
\* that is gone, and is in its session with its own stamp in the file
C31_Witness ==
  \E p \in Schedulers :
    /\ sched[p].pc = "run"
    /\ sched[p].last \in 0..MaxTime
    /\ sched[p].now - sched[p].last >= lock_ttl
    /\ lock_file = LockOf(sched[p].now, p)

\* C32 (as claimed): when a round of a session has raised, the alert log
\* holds a "live_run_error" alert and live_runs.jsonl a summary with status
\* error for that run.
C32_FailureAlertedAndRecorded ==
  (session.pc = "raised" /\ session.raised = "Exception")
    => /\ \E i \in DOMAIN alerts : alerts[i].event = "live_run_error"
       /\ \E i \in DOMAIN session.runs : session.runs[i].status = "error"

\* what the code does: the handler of line 72 raises again at line 76, so a
\* failed round leaves the function before lines 77-79; no "live_run_error"
\* alert is ever sent and every summary recorded has status completed
C32_OnlyCompletedRunsRecorded ==
  /\ \A i \in DOMAIN alerts : alerts[i].event # "live_run_error"
  /\ \A i \in DOMAIN session.runs : session.runs[i].status = "completed"
  /\ (session.pc = "raised" /\ session.raised = "Exception")
       => /\ session.status = "error"
          /\ session.log[Len(session.log)] = "Error"

\* the message with which each limit rejects
LimitOfMessage ==
  [ m \in {DailyLossMsg, OrderNotionalMsg, OrderPctMsg, PositionNotionalMsg, PositionPctMsg}
      |-> CASE m = DailyLossMsg -> "MAX_DAILY_LOSS_PCT"
            [] m = OrderNotionalMsg -> "MAX_ORDER_NOTIONAL_USD"
            [] m = OrderPctMsg -> "MAX_ORDER_PCT_EQUITY"
            [] m = PositionNotionalMsg -> "MAX_POSITION_NOTIONAL_USD"
            [] OTHER -> "MAX_POSITION_PCT_EQUITY" ]

NumericLimits ==
  {"MAX_ORDER_NOTIONAL_USD", "MAX_ORDER_PCT_EQUITY", "MAX_POSITION_NOTIONAL_USD",
   "MAX_POSITION_PCT_EQUITY", "MAX_DAILY_LOSS_PCT"}

\* C33: a limit that is not configured (not set, empty or not a number)
\* rejects nothing. A buy is rejected with the message of a limit only when
\* that limit is configured, and for want of a price only when one of the
\* four notional limits is; with none of the five limits configured, a buy
\* that has a size, is not over a known buying power and whose broker
\* requests are answered ends with its order submitted.
C33_AbsentLimitDisablesOwnCheck ==
  IsBuy
    => /\ (pc = "done" /\ result.kind = "error" /\ result.error \in DOMAIN LimitOfMessage)
            => Limit(LimitOfMessage[result.error]) # None
       /\ (pc = "done" /\ result.kind = "error" /\ result.error = PriceRequired)
            => \E k \in NumericLimits \ {"MAX_DAILY_LOSS_PCT"} : Limit(k) # None
       /\ \A i \in DOMAIN alerts :
            alerts[i].details \in DOMAIN LimitOfMessage
              => Limit(LimitOfMessage[alerts[i].details]) # None
       /\ ( /\ \A k \in NumericLimits : Limit(k) = None
            /\ pc = "done" /\ result.kind # "raised"
            /\ (call.qty # None \/ call.notional # None)
            /\ ~(frame.order_notional # None /\ frame.buying_power # None
                  /\ frame.order_notional > frame.buying_power) )
            => /\ calls[Len(calls)] = "submit_order"
               /\ alerts = <<>>
               /\ result.error \notin EvaluatorRejections

\* with no limit configured, a buy of known notional within a known buying
\* power has gone to the broker and come back as an order
C33_Witness ==
  /\ pc = "done"
  /\ IsBuy
  /\ \A k \in NumericLimits : env[k] = Unset
  /\ frame.order_notional # None /\ frame.order_notional > 0
  /\ frame.buying_power # None
  /\ calls = <<"get_account", "list_positions", "submit_order">>
  /\ result.kind = "order"

\* only the order cap is configured and a buy is rejected by it, the limits
\* that are not configured having let it pass
C33_WitnessSubset ==
  /\ pc = "done"
  /\ IsBuy
  /\ Limit("MAX_ORDER_PCT_EQUITY") # None
  /\ \A k \in NumericLimits \ {"MAX_ORDER_PCT_EQUITY"} : Limit(k) = None
  /\ result.error = OrderPctMsg

\* the notional of the whole sliced order, None when it is not known
TwapTotal ==
  IF twap.notional # None THEN twap.notional
  ELSE IF twap.qty = None \/ twap.estimated_price = None THEN None
  ELSE twap.qty * twap.estimated_price

\* the notional of an order the broker accepted during a sliced order
OrderNotional(order) ==
  IF order.notional # None THEN order.notional
  ELSE IF twap.estimated_price = None THEN None
  ELSE order.qty * twap.estimated_price

\* C34 (as claimed): of a sliced buy whose total notional is greater than
\* MAX_ORDER_NOTIONAL_USD, no slice reaches the broker as an order.
C34_SlicingKeepsOrderLimit ==
  ( /\ twap.active /\ twap.side = "buy"
    /\ Limit("MAX_ORDER_NOTIONAL_USD") # None
    /\ TwapTotal # None
    /\ TwapTotal > Limit("MAX_ORDER_NOTIONAL_USD") )
    => orders = <<>>

\* what the code does: live_twap_order checks nothing itself, every slice
\* goes through live_buy on its own, and each slice the broker accepted is
\* within MAX_ORDER_NOTIONAL_USD by its own notional
C34_EachSliceWithinLimit ==
  (twap.active /\ twap.side = "buy" /\ Limit("MAX_ORDER_NOTIONAL_USD") # None)
    => \A i \in DOMAIN orders :
         /\ OrderNotional(orders[i]) # None
         /\ OrderNotional(orders[i]) <= Limit("MAX_ORDER_NOTIONAL_USD")

\* every slice of a sliced buy over the limit has been accepted
C34_AllSlicesAccepted ==
  /\ pc = "done"
  /\ twap.active /\ twap.side = "buy"
  /\ Limit("MAX_ORDER_NOTIONAL_USD") # None
  /\ TwapTotal # None /\ TwapTotal > Limit("MAX_ORDER_NOTIONAL_USD")
  /\ Len(orders) = Len(twap.plan)
  /\ Len(orders) > 1

\* the worth of the holding of Symbol on the broker's book
BookNotional == IF book.qty < 0 THEN (0 - book.qty) * BookPrice ELSE book.qty * BookPrice

\* C35: with MAX_POSITION_NOTIONAL_USD = C, a constant price and every
\* accepted order filled and listed before the next evaluation, the holding
\* of Symbol, worth C at most at the start, is worth C at most after any
\* sequence of direct buys and of slices of sliced buys.
C35_PositionCapKept ==
  (book.tracked /\ Limit("MAX_POSITION_NOTIONAL_USD") # None)
    => BookNotional <= Limit("MAX_POSITION_NOTIONAL_USD")

\* a sliced buy has had a slice filled and a later slice, which would have
\* taken the holding over the cap, rejected
C35_Witness ==
  /\ pc = "done"
  /\ book.tracked
  /\ twap.active /\ twap.side = "buy"
  /\ orders # <<>>
  /\ Len(twap.results) > 1
  /\ twap.results[Len(twap.results)].error = PositionNotionalMsg
  /\ twap.results[Len(twap.results)].a > Limit("MAX_POSITION_NOTIONAL_USD")
  /\ BookNotional > 0

\* the slices of the running sliced sell that have returned
SellSlices == IF twap.active /\ twap.side = "sell" THEN DOMAIN twap.results ELSE {}

\* C36 (as claimed): in a sliced sell the slices are accepted up to the one
\* that exhausts the holding and the slices after it are rejected, so that
\* no slice is accepted after one that was rejected for want of holding.
C36_SlicesSubmittedUntilExhausted ==
  \A i \in SellSlices : \A j \in SellSlices :
    (i < j /\ twap.results[i].error = ShortMsg) => twap.results[j].kind # "order"

\* what the code does: with ALLOW_SHORT not true, a constant price and every
\* accepted order filled and listed before the next evaluation, the holding
\* of Symbol never becomes negative under sells by quantity, direct or
\* sliced; a sell goes to the broker only with a quantity the holding
\* covers, and a slice is rejected for want of holding exactly when it is
\* greater than the holding listed at that time, whatever happened to the
\* slices before it.
C36_NoShortKept ==
  book.tracked
    => /\ book.qty >= 0
       /\ (IsSell /\ pc = "sell_submit")
            => /\ frame.current_qty = book.qty
               /\ call.qty <= book.qty
       /\ \A i \in SellSlices :
            twap.results[i].error = ShortMsg
              => /\ twap.plan[i] > twap.results[i].b
                 /\ twap.results[i].b >= 0
       /\ (IsSell /\ pc = "done" /\ result.kind = "error" /\ result.error = ShortMsg)
            => /\ call.qty > book.qty
               /\ result.b = book.qty

\* a sliced sell of more than the holding has had slices filled until
\* nothing was left, and its last slice rejected
C36_SlicesFilledThenRejected ==
  /\ pc = "done"
  /\ book = Holding(0)
  /\ twap.active /\ twap.side = "sell"
  /\ Len(orders) >= 2
  /\ Len(twap.results) = Len(twap.plan)
  /\ twap.results[Len(twap.results)].error = ShortMsg

\* a sliced sell has had its larger first slices rejected and its smaller
\* last slice, which the holding covers, filled
C36_LaterSliceFilled ==
  /\ pc = "done"
  /\ twap.active /\ twap.side = "sell"
  /\ Len(twap.results) = 3
  /\ twap.results[1].error = ShortMsg
  /\ twap.results[2].error = ShortMsg
  /\ twap.results[3].kind = "order"
  /\ book = Holding(0)

\* process p leaves _release_lock in this step, through line 52
Unlinks(p) ==
  /\ sched[p].pc = "unlink"
  /\ sched'[p].pc \in {"sleep", "exited"}

\* C37 (as claimed): a process that releases the lock leaves a lock file
\* written by another process as it is.
C37_ReleaseOnlyOwnLock ==
  [][\A p \in Schedulers :
       (Unlinks(p) /\ lock_file.exists /\ lock_file.owner # p)
         => lock_file' = lock_file]_vars

\* what the code does: _release_lock removes the file that is there,
\* whoever wrote it
C37_ReleaseRemovesAnyLock ==
  [][\A p \in Schedulers : Unlinks(p) => lock_file' = NoLock]_vars

\* a process at the end of its session is about to remove the lock that
\* another process, now in its own session, took over after the ttl
C37_ForeignLockAtRelease ==
  \E p \in Schedulers : \E q \in Schedulers :
    /\ p # q
    /\ sched[p].pc = "unlink"
    /\ sched[q].pc = "run"
    /\ lock_file = LockOf(sched[q].now, q)
    /\ sched[q].last = sched[p].now
    /\ sched[q].now - sched[p].now >= lock_ttl

\* process p leaves the finally clause in this step
Released(p) ==
  /\ sched[p].pc \in {"release", "unlink"}
  /\ sched'[p].pc \in {"sleep", "exited"}

\* C38: a session that ends, by returning or by raising, goes through
\* _release_lock; when that is through there is no lock file; a call of
\* _acquire_lock that finds no lock file goes on to take the lock, however
\* short a time has passed; and if schedulers come to their tick again and
\* again, sessions are run again and again.
C38_SessionsReleaseAndRunAgain ==
  /\ [][\A p \in Schedulers :
          /\ (sched[p].pc = "run" /\ sched'[p].pc # "run")
               => /\ sched'[p].pc = "release"
                  /\ sched'[p].outcome \in {"returned", "raised"}
          /\ (sched'[p].pc = "exited" /\ sched[p].pc # "exited")
               => sched[p].pc \in {"release", "unlink"}
          /\ Released(p) => lock_file' = NoLock
          /\ (sched[p].pc = "tick" /\ sched'[p].now # None /\ lock_file = NoLock)
               => sched'[p].pc = "write"]_vars
  /\ ([]<>(\E p \in Schedulers : sched[p].pc = "tick")) => ([]<>(InSession # {}))

\* a session has raised, the lock file is gone and the exception has left
\* main, while the other scheduler, back at its tick, finds no lock
C38_Witness ==
  \E p \in Schedulers : \E q \in Schedulers :
    /\ sched[p].pc = "exited"
    /\ sched[p].outcome = "raised"
    /\ lock_file = NoLock
    /\ sched[q].pc = "tick"

====
